---- MODULE Spec2Model ----
(***************************************************************************)
(* The retrieval pipeline of makerphase: the fixed-width text splitter     *)
(* (splitText) and the per-document vector store (createVectorStore,       *)
(* loadVectorStore, deleteVectorStore, listVectorStores,                   *)
(* saveVectorStoreMetadata) with its process-wide cache and its on-disk    *)
(* layout <store dir>/<storeId>/{store.json, metadata.json}, the text      *)
(* upload routes, retrieveFromVectorStore, the chatbot agent and the       *)
(* PDFUploader component.                                                  *)
(*                                                                         *)
(* The specifications share the variables:                                 *)
(*   SpecSplit      one call of splitText, one loop iteration per step;    *)
(*   Spec           the vector store of one document id with NumTasks      *)
(*                  requests in flight, each suspended only where the code *)
(*                  awaits;                                                *)
(*   SpecOneWriter  as Spec, one createVectorStore in flight at a time;     *)
(*   SpecSeq        the vector store of two document ids with one request  *)
(*                  at a time;                                             *)
(*   SpecUpload     the upload route and the createVectorStore of a text,  *)
(*                  one request at a time;                                 *)
(*   SpecRank       retrievals from one stored document;                   *)
(*   SpecChat       both createVectorStore, retrievals and the questions   *)
(*                  of chatbotGraph, one request at a time;                *)
(*   SpecTopics     createVectorStore and the topic requests of            *)
(*                  getSuggestedTopics, one request at a time;             *)
(*   SpecStore      creations, retrievals and deletions of one document    *)
(*                  id with NumTasks requests in flight;                   *)
(*   SpecOps        every store operation on two document ids, one         *)
(*                  request at a time;                                     *)
(*   SpecPdf        the PDF upload route with loads and deletions;         *)
(*   SpecUploader   the PDFUploader component and the responses to its     *)
(*                  upload and topics requests.                            *)
(***************************************************************************)
EXTENDS Integers, Sequences, FiniteSets, TLC

\* ------------------------------------------------------------ bounds
MaxTextLen == 3
MaxChunkSize == 3
MaxChunks == 4
NumTasks == 2
MaxUploadLen == 2
MaxRankLen == 3
MaxTopK == 4
MaxUploads == 2
LongLen == 201

Alphabet == {"a", "b"}
Ids == {"d1", "d2"}
Tasks == 1..NumTasks

VARIABLES
    \* splitText: parameters and locals
    text, chunkSize, chunkOverlap, startIndex, endIndex, chunks, splitPc,
    \* the vector store: vectorStoreCache, the store directory, the requests
    vectorStoreCache, dirs, storeFile, metaFile, task,
    \* what the step just taken returned to its caller, if it returned
    returned,
    \* history: indexed[id] is the entry of the last createVectorStore(id) that
    \* returned, while no createVectorStore(id) or deleteVectorStore(id) was
    \* called since; deletedOk[id] holds from a deleteVectorStore(id) that
    \* returned true until createVectorStore(id) is called
    indexed, deletedOk,
    \* the PDFUploader component: its state, the position and the closure of
    \* the handleFileSelect that is running, and the last call of the
    \* onUploadSuccess prop
    suggestedTopics, isLoading, error, uploadedPDFs, showUploadForm, handler,
    uploadSuccess

splitVars == <<text, chunkSize, chunkOverlap, startIndex, endIndex, chunks, splitPc>>
storeVars == <<vectorStoreCache, dirs, storeFile, metaFile, task, returned, indexed, deletedOk>>
uploaderVars ==
    <<suggestedTopics, isLoading, error, uploadedPDFs, showUploadForm, handler, uploadSuccess>>
\* What a step of the vector store leaves alone.
idleVars == <<splitVars, uploaderVars>>
vars == <<splitVars, storeVars, uploaderVars>>

\* ------------------------------------------------------------ helpers
Min(a, b) == IF a < b THEN a ELSE b

\* String.prototype.slice(s, e) for 0 <= s, e <= length: characters s .. e-1.
Slice(str, s, e) == SubSeq(str, s + 1, e)

\* String.prototype.substring(0, n)
Prefix(str, n) == SubSeq(str, 1, Min(n, Len(str)))

Texts == UNION {[1..n -> Alphabet] : n \in 0..MaxTextLen}

\* ------------------------------------------------------------ splitText
\* endIndex of the window that starts at s (lines 12-15).
WindowEnd(s, size, len) == IF s + size > len THEN len ELSE s + size

NextStartSkipping(e, overlap) == IF e - overlap + 1 < 0 THEN 0 ELSE e - overlap + 1
\* startIndex after a window that ended at e (lines 18-22).
NextStart(e, overlap) == IF e - overlap < 0 THEN 0 ELSE e - overlap

\* One iteration of the while loop (lines 11-27): emit the window, move the
\* start, leave through the break when the start has reached the text end.
SplitStep ==
    /\ splitPc = "loop"
    /\ startIndex < Len(text)
    /\ Len(chunks) < MaxChunks
    /\ LET e == WindowEnd(startIndex, chunkSize, Len(text))
           s == NextStart(e, chunkOverlap)
       IN /\ endIndex' = e
          /\ chunks' = Append(chunks, Slice(text, startIndex, e))
          /\ startIndex' = s
          /\ splitPc' = IF s >= Len(text) THEN "done" ELSE "loop"
    /\ UNCHANGED <<text, chunkSize, chunkOverlap, storeVars, uploaderVars>>

\* The while condition fails (line 11) and the chunks are returned (line 29).
SplitExit ==
    /\ splitPc = "loop"
    /\ ~(startIndex < Len(text))
    /\ splitPc' = "done"
    /\ UNCHANGED <<text, chunkSize, chunkOverlap, startIndex, endIndex, chunks, storeVars,
                   uploaderVars>>

\* ------------------------------------------------------------ documents
\* The uploaded PDFs. "E" has no extractable text.
Docs == {"A", "B", "E"}
\* A PDF whose extractable text is one blank.
BlankDocs == {"W"}
\* A PDF of four chunks, the first of LongLen characters.
LongDocs == {"L"}
LongChunk == [i \in 1..LongLen |-> "x"]

\* filePath handed to createVectorStore, and path.basename of it.
FilePath(doc) == <<"uploads", doc>>
BaseName(path) == path[2]

\* pdfData.text of the file (pdf-parse).
ExtractedText(doc) ==
    CASE doc = "A" -> <<"a", "b", "b", "a">>
      [] doc = "B" -> <<"b">>
      [] doc = "W" -> <<" ">>
      [] doc = "L" -> LongChunk \o <<"a", "b", "a", "b">>
      [] OTHER -> <<>>

\* String.prototype.trim on a text whose only whitespace character is " ".
TrimStart(str) ==
    LET RECURSIVE Skip(_)
        Skip(i) == IF i <= Len(str) /\ str[i] = " " THEN Skip(i + 1) ELSE i
    IN SubSeq(str, Skip(1), Len(str))
TrimEnd(str) ==
    LET RECURSIVE Back(_)
        Back(i) == IF i >= 1 /\ str[i] = " " THEN Back(i - 1) ELSE i
    IN SubSeq(str, 1, Back(Len(str)))
Trim(str) == TrimEnd(TrimStart(str))

\* pdfData.numpages || 1 (line 350).
PageCount(doc) == IF doc = "A" THEN 2 ELSE 1

\* splitter.splitDocuments(docs): the chunk texts, in order.
SplitDocuments(doc) ==
    CASE doc = "A" -> << <<"a", "b">>, <<"b", "a">> >>
      [] doc = "B" -> << <<"b">> >>
      [] doc = "L" -> << LongChunk, <<"a">>, <<"b">>, <<"a", "b">> >>
      [] OTHER -> <<>>

\* The provider's vector of one text: here the counts of "a" and "b".
CountOf(ch, str) == Cardinality({i \in 1..Len(str) : str[i] = ch})
EmbeddingOf(str) == <<CountOf("a", str), CountOf("b", str)>>

\* embeddings.embedDocuments(texts): one vector per text, in order.
EmbedDocuments(texts) == [i \in 1..Len(texts) |-> EmbeddingOf(texts[i])]

\* ------------------------------------------------------------ entries
None == <<>>
Some(x) == <<x>>

ChunkIndexOffByOne(idx) == idx + 1
\* chunkIndex of the chunk at (0-based) position idx (line 385).
ChunkIndex(idx) == idx

\* chunks.map((chunk, idx) => ({source, pageNumber, chunkIndex, fileName}))
BuildMetadata(doc, texts) ==
    [i \in 1..Len(texts) |->
        [source |-> FilePath(doc), pageNumber |-> 0,
         chunkIndex |-> ChunkIndex(i - 1), fileName |-> BaseName(FilePath(doc))]]

\* storeData (lines 390-394).
StoreData(doc, vectors) ==
    [chunks |-> SplitDocuments(doc), embeddings |-> vectors,
     metadata |-> BuildMetadata(doc, SplitDocuments(doc))]

SumLen(texts) ==
    LET RECURSIVE Sum(_)
        Sum(i) == IF i = 0 THEN 0 ELSE Len(texts[i]) + Sum(i - 1)
    IN Sum(Len(texts))

\* The record createVectorStore writes to metadata.json (lines 410-416).
CreateMeta(doc) ==
    << <<"fileName", BaseName(FilePath(doc))>>, <<"createdAt", "iso">>,
       <<"chunkCount", Len(SplitDocuments(doc))>>, <<"pageCount", PageCount(doc)>>,
       <<"textLength", SumLen(SplitDocuments(doc))>> >>

\* The record the upload route hands to saveVectorStoreMetadata.
RouteMeta(doc) ==
    << <<"fileName", BaseName(FilePath(doc))>>, <<"createdAt", "iso">>,
       <<"pageCount", PageCount(doc)>>, <<"textLength", 0>> >>

\* ------------------------------------------------------------ JSON files
\* A file is a sequence of tokens: "{", one token per array element or
\* field, "}". A write lays its tokens over the file from offset 0.
Open == <<"{", 0>>
Close == <<"}", 0>>
Tagged(tag, seq) == [i \in 1..Len(seq) |-> <<tag, seq[i]>>]
Values(tag, toks) ==
    LET keep == SelectSeq(toks, LAMBDA k : k[1] = tag)
    IN [i \in 1..Len(keep) |-> keep[i][2]]

JSONStringifyFirstChunk(e) ==
    <<Open>> \o Tagged("c", Prefix(e.chunks, 1)) \o Tagged("e", e.embeddings)
             \o Tagged("m", e.metadata) \o <<Close>>
\* JSON.stringify(storeData, null, 2)
JSONStringify(e) ==
    <<Open>> \o Tagged("c", e.chunks) \o Tagged("e", e.embeddings)
             \o Tagged("m", e.metadata) \o <<Close>>

\* JSON.stringify(metadata, null, 2) of a flat record
JSONStringifyMeta(fields) == <<Open>> \o fields \o <<Close>>

\* Well-formed text: one object, nothing after its closing brace.
WellFormed(toks) ==
    /\ Len(toks) >= 2
    /\ toks[1] = Open
    /\ toks[Len(toks)] = Close
    /\ \A i \in 2..(Len(toks) - 1) : toks[i][1] \notin {"{", "}"}

JSONParseLenient(toks) ==
    Some([chunks |-> Values("c", toks), embeddings |-> Values("e", toks),
          metadata |-> Values("m", toks)])
\* JSON.parse(storeDataStr) as VectorStoreData: None when it throws.
JSONParse(toks) ==
    IF WellFormed(toks)
    THEN Some([chunks |-> Values("c", toks), embeddings |-> Values("e", toks),
               metadata |-> Values("m", toks)])
    ELSE None

\* The bytes of a file after writing data at offset off of its current
\* bytes; a write past the end of the file leaves a hole of zero bytes.
Hole == <<"0", 0>>
WriteOver(cur, off, data) ==
    [i \in 1..(IF Len(cur) > off + Len(data) THEN Len(cur) ELSE off + Len(data)) |->
        IF i > off /\ i <= off + Len(data) THEN data[i - off]
        ELSE IF i <= Len(cur) THEN cur[i]
        ELSE Hole]

\* ------------------------------------------------------------ requests
\* A request in flight: the operation, its arguments, where it is suspended
\* and its locals (entry: storeData of a create; buf: what readFile
\* delivered; fd: the file a writeFile has open), whether a create was
\* called with neither a cache entry nor a directory for its id, and how many
\* calls of the embedding provider it has made; text is the textContent of
\* a request that carries one, via the route that made the call; query and
\* topK are the arguments of a retrieval, loaded holds when its
\* loadVectorStore put the entry in the cache; of a chatbotGraph, hasStore
\* tells whether it got a storeId, retrieval how its retrieval ended, docs
\* are relevantDocs and llm counts its llm.invoke calls.
IdleTask ==
    [op |-> "none", id |-> "d1", doc |-> "A", pc |-> "idle", entry |-> None,
     buf |-> None, fd |-> "none", fresh |-> FALSE, embeds |-> 0,
     text |-> <<>>, via |-> "direct", query |-> <<>>, topK |-> 0, loaded |-> FALSE,
     hasStore |-> FALSE, docs |-> <<>>, retrieval |-> "none", llm |-> 0]

\* The slot a new request takes: the first idle one, for the slots are
\* interchangeable.
Free(t) == task[t].pc = "idle" /\ \A u \in Tasks : u < t => task[u].pc # "idle"
InFlight == {t \in Tasks : task[t].pc # "idle"}
Creating == {t \in Tasks : task[t].op = "create"}

Call(op, id, doc, pc) ==
    [IdleTask EXCEPT !.op = op, !.id = id, !.doc = doc, !.pc = pc]

Goto(t, pc) == [task EXCEPT ![t].pc = pc]
Finish(t) == [task EXCEPT ![t] = IdleTask]

\* What a call hands back. ok is FALSE when it threw; entry is what
\* loadVectorStore returned (None for null) or the storeData createVectorStore
\* built; disk tells whether loadVectorStore went to the store directory;
\* ret is deleteVectorStore's boolean; listed is listVectorStores' ids; fresh
\* tells whether createVectorStore was called with neither a cache entry nor
\* a directory for its id; cause names what made it throw; embeds is the
\* number of calls of the embedding provider it made; text is the
\* textContent it was given; status is the HTTP status of a route's response;
\* query, topK and results are those of retrieveFromVectorStore, and loaded
\* holds when its loadVectorStore put the entry in the cache; hasStore,
\* retrieval, docs and llm are those of the chatbotGraph request, output the
\* content of the language model's message and response what it returned.
Event(op, id) ==
    [op |-> op, id |-> id, doc |-> "A", ok |-> TRUE, entry |-> None,
     disk |-> FALSE, ret |-> FALSE, listed |-> {}, fresh |-> FALSE,
     cause |-> "none", embeds |-> 0, text |-> <<>>, status |-> 0,
     query |-> <<>>, topK |-> 0, results |-> <<>>, loaded |-> FALSE,
     hasStore |-> FALSE, docs |-> <<>>, retrieval |-> "none", llm |-> 0,
     response |-> <<>>, output |-> "none"]

\* The event of a createVectorStore(filePath, storeId): of the call, or, when
\* the PDF route made it, of the route, which answers 200 or, from its catch,
\* 500 (part_001 318-331).
CreateEvent(t, cause) ==
    [Event(IF task[t].via = "upload" THEN "uploadPdf" ELSE "create", task[t].id) EXCEPT
        !.doc = task[t].doc, !.ok = (cause = "none"),
        !.entry = task[t].entry, !.fresh = task[t].fresh, !.cause = cause,
        !.embeds = task[t].embeds,
        !.status = IF task[t].via # "upload" THEN 0
                   ELSE IF cause = "none" THEN 200 ELSE 500]

\* createVectorStore's catch logs and rethrows what was thrown (424-427).
Throws(t, cause) ==
    /\ task' = Finish(t)
    /\ returned' = Some(CreateEvent(t, cause))

\* ------------------------------------------------------------ createVectorStore
\* The call up to its first await: readFileSync, then pdf(fileBuffer) (321-331).
CallCreate(t, id, doc, limit, writers) ==
    /\ Free(t)
    /\ Cardinality(InFlight) < limit
    /\ Cardinality(Creating) < writers
    /\ task' = [task EXCEPT ![t] =
          [Call("create", id, doc, "parse") EXCEPT
              !.fresh = (vectorStoreCache[id] = None /\ ~dirs[id])]]
    /\ deletedOk' = [deletedOk EXCEPT ![id] = FALSE]
    /\ indexed' = [indexed EXCEPT ![id] = None]
    /\ returned' = None
    /\ UNCHANGED <<vectorStoreCache, dirs, storeFile, metaFile, idleVars>>

\* pdf-parse settles: it throws, or the text is empty (338-340), or the
\* splitter is called (359).
CreateParsed(t) ==
    /\ task[t].op = "create" /\ task[t].pc = "parse"
    /\ \/ Throws(t, "parse")
       \/ /\ Trim(ExtractedText(task[t].doc)) = <<>>
          /\ Throws(t, "empty")
       \/ /\ Trim(ExtractedText(task[t].doc)) # <<>>
          /\ task' = Goto(t, "split")
          /\ returned' = None
    /\ UNCHANGED <<vectorStoreCache, dirs, storeFile, metaFile, indexed, deletedOk, idleVars>>

\* splitDocuments settles: no chunk throws (361-363), else embedDocuments is
\* called (377).
ProviderCallsRetried(n) == n + 2
\* The provider calls made after one embedDocuments(texts) (377): the call is
\* not in a loop, and a throw leaves the function (424-427).
ProviderCalls(n) == n + 1

CreateSplit(t) ==
    /\ task[t].op = "create" /\ task[t].pc = "split"
    /\ IF Len(SplitDocuments(task[t].doc)) = 0
       THEN Throws(t, "empty")
       ELSE /\ task' = [task EXCEPT ![t].pc = "embed", ![t].embeds = ProviderCalls(@)]
            /\ returned' = None
    /\ UNCHANGED <<vectorStoreCache, dirs, storeFile, metaFile, indexed, deletedOk, idleVars>>

SetCacheAlone(cache, id, e) == [i \in DOMAIN cache |-> IF i = id THEN Some(e) ELSE None]
\* vectorStoreCache.set(storeId, storeData)
SetCache(cache, id, e) == [cache EXCEPT ![id] = Some(e)]

\* embedDocuments settles: it throws, or storeData is built, put in the cache
\* (396) and mkdir is called (400).
CreateEmbedded(t) ==
    /\ task[t].op = "create" /\ task[t].pc = "embed"
    /\ \/ /\ Throws(t, "embed")
          /\ UNCHANGED vectorStoreCache
       \/ LET e == StoreData(task[t].doc, EmbedDocuments(SplitDocuments(task[t].doc)))
          IN /\ vectorStoreCache' = SetCache(vectorStoreCache, task[t].id, e)
             /\ task' = [task EXCEPT ![t].pc = "mkdir", ![t].entry = Some(e)]
             /\ returned' = None
    /\ UNCHANGED <<dirs, storeFile, metaFile, indexed, deletedOk, idleVars>>

\* mkdir(storePath, {recursive: true}) settles, then writeFile(store.json) is
\* called (402).
CreateMkdir(t) ==
    /\ task[t].op = "create" /\ task[t].pc = "mkdir"
    /\ \/ /\ Throws(t, "io")
          /\ UNCHANGED dirs
       \/ /\ dirs' = [dirs EXCEPT ![task[t].id] = TRUE]
          /\ task' = Goto(t, "openStore")
          /\ returned' = None
    /\ UNCHANGED <<vectorStoreCache, storeFile, metaFile, indexed, deletedOk, idleVars>>

\* writeFile opens the file with flag "w": created if absent, truncated if
\* present. It fails (ENOENT) when the directory is gone.
OpenW(file) == Some(<<>>)

CreateOpenStore(t) ==
    /\ task[t].op = "create" /\ task[t].pc = "openStore"
    /\ \/ /\ Throws(t, "io")
          /\ UNCHANGED storeFile
       \/ /\ dirs[task[t].id]
          /\ storeFile' = [storeFile EXCEPT ![task[t].id] = OpenW(@)]
          /\ task' = [task EXCEPT ![t].pc = "writeStore", ![t].fd = "live"]
          /\ returned' = None
    /\ UNCHANGED <<vectorStoreCache, dirs, metaFile, indexed, deletedOk, idleVars>>

\* The file after the open descriptor fd is written with data: a descriptor
\* whose file was unlinked writes to no file of the directory.
WriteFd(file, fd, off, data) ==
    IF fd = "live" /\ file # None THEN Some(WriteOver(file[1], off, data)) ELSE file

\* writeFile writes a large buffer in several writes: the first half of the
\* data, then the rest at the offset the first write reached.
FirstWrite(data) == Prefix(data, Len(data) \div 2)
RestWrite(data) == SubSeq(data, Len(data) \div 2 + 1, Len(data))

\* The data of store.json is written whole (or the write fails, or only its
\* first half is written so far); once whole the file is closed and
\* writeFile(metadata.json) is called (407).
CreateWriteStore(t) ==
    /\ task[t].op = "create" /\ task[t].pc = "writeStore"
    /\ \/ /\ Throws(t, "io")
          /\ UNCHANGED storeFile
       \/ /\ storeFile' = [storeFile EXCEPT ![task[t].id] =
                WriteFd(@, task[t].fd, 0, FirstWrite(JSONStringify(task[t].entry[1])))]
          /\ task' = Goto(t, "writeRest")
          /\ returned' = None
       \/ /\ storeFile' = [storeFile EXCEPT ![task[t].id] =
                WriteFd(@, task[t].fd, 0, JSONStringify(task[t].entry[1]))]
          /\ task' = [task EXCEPT ![t].pc = "openMeta", ![t].fd = "none"]
          /\ returned' = None
    /\ UNCHANGED <<vectorStoreCache, dirs, metaFile, indexed, deletedOk, idleVars>>

\* The second write of store.json.
CreateWriteRest(t) ==
    /\ task[t].op = "create" /\ task[t].pc = "writeRest"
    /\ \/ /\ Throws(t, "io")
          /\ UNCHANGED storeFile
       \/ LET data == JSONStringify(task[t].entry[1])
          IN /\ storeFile' = [storeFile EXCEPT ![task[t].id] =
                   WriteFd(@, task[t].fd, Len(FirstWrite(data)), RestWrite(data))]
             /\ task' = [task EXCEPT ![t].pc = "openMeta", ![t].fd = "none"]
             /\ returned' = None
    /\ UNCHANGED <<vectorStoreCache, dirs, metaFile, indexed, deletedOk, idleVars>>

CreateOpenMeta(t) ==
    /\ task[t].op = "create" /\ task[t].pc = "openMeta"
    /\ \/ /\ Throws(t, "io")
          /\ UNCHANGED metaFile
       \/ /\ dirs[task[t].id]
          /\ metaFile' = [metaFile EXCEPT ![task[t].id] = OpenW(@)]
          /\ task' = [task EXCEPT ![t].pc = "writeMeta", ![t].fd = "live"]
          /\ returned' = None
    /\ UNCHANGED <<vectorStoreCache, dirs, storeFile, indexed, deletedOk, idleVars>>

\* metadata.json after the caller of createVectorStore resumed: the PDF route
\* calls saveVectorStoreMetadata with its own record, which replaces the file
\* (part_001 309-314), another caller leaves it.
RouteSaved(t, file) ==
    IF task[t].via = "upload" THEN Some(JSONStringifyMeta(RouteMeta(task[t].doc))) ELSE file

\* metadata.json is written and closed; the call returns {pageCount,
\* chunkCount} (423). The PDF route then saves its metadata, making the
\* directory if it is missing, and responds; its writeFileSync may throw.
CreateWriteMeta(t) ==
    /\ task[t].op = "create" /\ task[t].pc = "writeMeta"
    /\ LET written == WriteFd(metaFile[task[t].id], task[t].fd, 0,
                              JSONStringifyMeta(CreateMeta(task[t].doc)))
       IN \/ /\ Throws(t, "io")
             /\ UNCHANGED <<metaFile, indexed, dirs>>
          \/ /\ task[t].via = "upload"
             /\ Throws(t, "io")
             /\ metaFile' = [metaFile EXCEPT ![task[t].id] = written]
             /\ UNCHANGED <<indexed, dirs>>
          \/ /\ metaFile' = [metaFile EXCEPT ![task[t].id] = RouteSaved(t, written)]
             /\ dirs' = [dirs EXCEPT ![task[t].id] = (task[t].via = "upload") \/ @]
             /\ task' = Finish(t)
             /\ returned' = Some(CreateEvent(t, "none"))
             /\ indexed' = [indexed EXCEPT ![task[t].id] = task[t].entry]
    /\ UNCHANGED <<vectorStoreCache, storeFile, deletedOk, idleVars>>

\* ------------------------------------------------------------ createVectorStore(fileName, textContent, storeId)
\* splitText(text, chunkSize, chunkOverlap) as a function: the chunks it
\* returns, or None when its loop comes back to the startIndex it had (and
\* so never ends).
SplitText(str, size, overlap) ==
    LET RECURSIVE Loop(_, _)
        Loop(start, acc) ==
            IF ~(start < Len(str)) THEN Some(acc)
            ELSE LET e == WindowEnd(start, size, Len(str))
                     n == NextStart(e, overlap)
                     out == Append(acc, Slice(str, start, e))
                 IN IF n >= Len(str) THEN Some(out)
                    ELSE IF n = start THEN None
                    ELSE Loop(n, out)
    IN Loop(0, <<>>)

\* The arguments of splitText(textContent, 1000, 200) (line 83).
CallChunkSize == 1000
CallChunkOverlap == 200

\* The texts a request carries: up to MaxUploadLen characters, blanks among them.
UploadAlphabet == {"a", " "}
UploadTexts == UNION {[1..n -> UploadAlphabet] : n \in 0..MaxUploadLen}

\* fileName of every textContent request.
FileName == "f"

\* chunks.map((chunk, idx) => ({source, chunkIndex, fileName})) (89-93)
BuildTextMetadata(texts) ==
    [i \in 1..Len(texts) |->
        [source |-> FileName, chunkIndex |-> ChunkIndex(i - 1), fileName |-> FileName]]

\* storeData (96-100)
TextStoreData(texts) ==
    [chunks |-> texts, embeddings |-> EmbedDocuments(texts),
     metadata |-> BuildTextMetadata(texts)]

\* The record written to metadata.json (118-122).
TextMeta(texts) ==
    << <<"fileName", FileName>>, <<"createdAt", "iso">>, <<"chunkCount", Len(texts)>> >>

\* The record the textContent upload route hands to saveVectorStoreMetadata.
UploadMeta(str) ==
    << <<"fileName", FileName>>, <<"createdAt", "iso">>, <<"pageCount", 0>>,
       <<"textLength", Len(str)>> >>

\* What a textContent request hands back: createVectorStore's outcome when it
\* was called directly, the route's response when the route called it
\* (400 for a rejected request, 500 from its catch, 200).
TextEvent(t, cause) ==
    [Event(IF task[t].via = "upload" THEN "upload" ELSE "createText", task[t].id) EXCEPT
        !.ok = (cause = "none"), !.cause = cause, !.fresh = task[t].fresh,
        !.embeds = task[t].embeds, !.text = task[t].text, !.entry = task[t].entry,
        !.status = IF task[t].via # "upload" THEN 0
                   ELSE IF cause = "none" THEN 200 ELSE 500]

\* The call up to its first await: splitText (83), then embedDocuments is
\* called (86). A splitText that does not return blocks the process, where
\* nothing else runs, until its chunks array exhausts the memory and the
\* process dies: every request in flight is lost without a response, and
\* the cache with them.
CallCreateText(t, id, str, via, limit) ==
    /\ Free(t)
    /\ Cardinality(InFlight) < limit
    /\ IF SplitText(str, CallChunkSize, CallChunkOverlap) = None
       THEN /\ task' = [u \in Tasks |-> IdleTask]
            /\ vectorStoreCache' = [i \in Ids |-> None]
       ELSE /\ task' = [task EXCEPT ![t] =
                  [Call("createText", id, "A", "embedText") EXCEPT
                      !.text = str, !.via = via, !.embeds = ProviderCalls(0),
                      !.fresh = (vectorStoreCache[id] = None /\ ~dirs[id])]]
            /\ UNCHANGED vectorStoreCache
    /\ deletedOk' = [deletedOk EXCEPT ![id] = FALSE]
    /\ indexed' = [indexed EXCEPT ![id] = None]
    /\ returned' = None
    /\ UNCHANGED <<dirs, storeFile, metaFile, idleVars>>

\* embedDocuments settles: it throws, or storeData is put in the cache (102)
\* and, synchronously, the directory is made (106-108) and store.json (110)
\* and metadata.json (115) are written; each of the three may throw. The
\* route then saves its metadata record and responds.
CreateTextEmbedded(t) ==
    /\ task[t].op = "createText" /\ task[t].pc = "embedText"
    /\ LET id == task[t].id
           e == TextStoreData(SplitText(task[t].text, CallChunkSize, CallChunkOverlap)[1])
           stored == [task EXCEPT ![t].entry = Some(e)]
       IN \/ /\ task' = Finish(t)
             /\ returned' = Some(TextEvent(t, "embed"))
             /\ UNCHANGED <<vectorStoreCache, dirs, storeFile, metaFile, indexed>>
          \/ /\ vectorStoreCache' = SetCache(vectorStoreCache, id, e)
             /\ task' = Finish(t)
             /\ \/ /\ ~dirs[id]
                   /\ returned' = Some([TextEvent(t, "io") EXCEPT !.entry = Some(e)])
                   /\ UNCHANGED <<dirs, storeFile, metaFile, indexed>>
                \/ /\ dirs' = [dirs EXCEPT ![id] = TRUE]
                   /\ returned' = Some([TextEvent(t, "io") EXCEPT !.entry = Some(e)])
                   /\ UNCHANGED <<storeFile, metaFile, indexed>>
                \/ /\ dirs' = [dirs EXCEPT ![id] = TRUE]
                   /\ storeFile' = [storeFile EXCEPT ![id] = Some(JSONStringify(e))]
                   /\ returned' = Some([TextEvent(t, "io") EXCEPT !.entry = Some(e)])
                   /\ UNCHANGED <<metaFile, indexed>>
                \/ /\ dirs' = [dirs EXCEPT ![id] = TRUE]
                   /\ storeFile' = [storeFile EXCEPT ![id] = Some(JSONStringify(e))]
                   /\ metaFile' = [metaFile EXCEPT ![id] =
                         Some(JSONStringifyMeta(IF task[t].via = "upload"
                                                THEN UploadMeta(task[t].text)
                                                ELSE TextMeta(e.chunks)))]
                   /\ returned' = Some([TextEvent(t, "none") EXCEPT !.entry = Some(e)])
                   /\ indexed' = [indexed EXCEPT ![id] = Some(e)]
    /\ UNCHANGED <<deletedOk, idleVars>>

\* ------------------------------------------------------------ POST /api/upload (textContent)
\* The response to a request the route rejects, "none" when it accepts it:
\* the JSON body needs a non-empty textContent (33), the PDF must parse (68)
\* to a text that is not blank (76), and no text may be blank (88).
UploadAcceptsAll(kind, str, parses) == "none"
UploadRejection(kind, str, parses) ==
    IF kind = "json" /\ str = <<>> THEN "required"
    ELSE IF kind = "pdf" /\ ~parses THEN "parse"
    ELSE IF Trim(str) = <<>> THEN "empty"
    ELSE "none"

\* uuidv4(): an id no store and no request has.
Unused(id) ==
    /\ vectorStoreCache[id] = None /\ ~dirs[id]
    /\ \A u \in InFlight : task[u].id # id

\* POST: a rejected request is answered 400 at once; an accepted one calls
\* createVectorStore(fileName, textContent, storeId) (99).
UploadPost(t, kind, str, parses, limit) ==
    IF UploadRejection(kind, str, parses) # "none"
    THEN /\ Free(t)
         /\ Cardinality(InFlight) < limit
         /\ returned' = Some([Event("upload", "d1") EXCEPT
                !.ok = FALSE, !.cause = UploadRejection(kind, str, parses),
                !.text = str, !.status = 400])
         /\ UNCHANGED <<vectorStoreCache, dirs, storeFile, metaFile, task, indexed,
                        deletedOk, idleVars>>
    ELSE \E id \in Ids :
            /\ Unused(id)
            /\ CallCreateText(t, id, str, "upload", limit)

\* ------------------------------------------------------------ POST /api/upload (PDF)
\* What the PDF route answers 400 with, "none" when it goes on: the request is
\* multipart (part_001 265), has a file (276) and its name ends in .pdf (283).
PdfRejection(kind) == IF kind = "pdf" THEN "none" ELSE kind

\* POST up to createVectorStore's first await: a rejected request is answered
\* 400; else the file is written to uploads, which may throw into the catch
\* (500), and createVectorStore(filePath, storeId) is called with a new id
\* (part_001 262, 301).
UploadPdfPost(t, kind, doc, limit) ==
    /\ Free(t)
    /\ Cardinality(InFlight) < limit
    /\ \/ /\ PdfRejection(kind) # "none"
          /\ returned' = Some([Event("uploadPdf", "d1") EXCEPT
                 !.ok = FALSE, !.cause = PdfRejection(kind), !.status = 400])
          /\ UNCHANGED <<task, indexed, deletedOk>>
       \/ /\ PdfRejection(kind) = "none"
          /\ returned' = Some([Event("uploadPdf", "d1") EXCEPT
                 !.doc = doc, !.ok = FALSE, !.cause = "io", !.status = 500])
          /\ UNCHANGED <<task, indexed, deletedOk>>
       \/ /\ PdfRejection(kind) = "none"
          /\ \E id \in Ids :
                /\ Unused(id)
                /\ task' = [task EXCEPT ![t] =
                      [Call("create", id, doc, "parse") EXCEPT
                          !.via = "upload", !.fresh = TRUE]]
                /\ deletedOk' = [deletedOk EXCEPT ![id] = FALSE]
                /\ indexed' = [indexed EXCEPT ![id] = None]
          /\ returned' = None
    /\ UNCHANGED <<vectorStoreCache, dirs, storeFile, metaFile, idleVars>>

\* ------------------------------------------------------------ loadVectorStore
LoadMissAlways(cache, id) == None
\* vectorStoreCache.has(storeId) ? vectorStoreCache.get(storeId) : miss (437-439)
CacheLookup(cache, id) == cache[id]

\* The call up to its first await: a cache hit returns the cached entry; a
\* miss with no directory returns null (443, 463); else readFile is called.
CallLoad(t, id, limit) ==
    /\ Free(t)
    /\ Cardinality(InFlight) < limit
    /\ IF CacheLookup(vectorStoreCache, id) # None
       THEN /\ returned' = Some([Event("load", id) EXCEPT !.entry = CacheLookup(vectorStoreCache, id)])
            /\ UNCHANGED task
       ELSE IF dirs[id]
       THEN /\ task' = [task EXCEPT ![t] = Call("load", id, "A", "read")]
            /\ returned' = None
       ELSE /\ returned' = Some([Event("load", id) EXCEPT !.disk = TRUE])
            /\ UNCHANGED task
    /\ UNCHANGED <<vectorStoreCache, dirs, storeFile, metaFile, indexed, deletedOk, idleVars>>

\* fs.readFile reads store.json: its bytes, or an error when there is none.
LoadRead(t) ==
    /\ task[t].op = "load" /\ task[t].pc = "read"
    /\ task' = [task EXCEPT ![t].pc = "resume", ![t].buf = storeFile[task[t].id]]
    /\ returned' = None
    /\ UNCHANGED <<vectorStoreCache, dirs, storeFile, metaFile, indexed, deletedOk, idleVars>>

\* The entry loadVectorStore makes of what readFile delivered (445-460):
\* None when readFile rejected or JSON.parse threw.
Deserialize(buf) == IF buf = None THEN None ELSE JSONParse(buf[1])

\* The callback resumes the call: parse, cache, return; or catch and
\* return null.
LoadResume(t) ==
    /\ task[t].op = "load" /\ task[t].pc = "resume"
    /\ LET got == Deserialize(task[t].buf)
       IN /\ task' = Finish(t)
          /\ returned' = Some([Event("load", task[t].id) EXCEPT !.entry = got, !.disk = TRUE])
          /\ vectorStoreCache' =
                IF got = None THEN vectorStoreCache
                ELSE SetCache(vectorStoreCache, task[t].id, got[1])
    /\ UNCHANGED <<dirs, storeFile, metaFile, indexed, deletedOk, idleVars>>

\* ------------------------------------------------------------ retrieveFromVectorStore
\* The accumulators of cosineSimilarity(a, b) after its loop (302-306):
\* dotProduct, normA, normB. The score is dot / (sqrt(na) * sqrt(nb) + 1e-10).
Dot(a, b) ==
    LET RECURSIVE Sum(_)
        Sum(i) == IF i = 0 THEN 0 ELSE a[i] * b[i] + Sum(i - 1)
    IN Sum(Len(a))
CosineSimilarity(a, b) == [dot |-> Dot(a, b), na |-> Dot(a, a), nb |-> Dot(b, b)]

Sgn(x) == IF x > 0 THEN 1 ELSE IF x < 0 THEN -1 ELSE 0

\* The sign of x * sqrt(u) - y * sqrt(v), for u, v >= 0.
SgnRootDiff(x, u, y, v) == Sgn(Sgn(x) * x * x * u - Sgn(y) * y * y * v)

\* The sign of s1 - s2 for two scores: that of
\* d1 * (m2 + eps) - d2 * (m1 + eps), m the product of the norms, eps = 1e-10
\* smaller than any difference of the integer terms.
ScoreDiff(s1, s2) ==
    LET main == SgnRootDiff(s1.dot, s2.na * s2.nb, s2.dot, s1.na * s1.nb)
    IN IF main # 0 THEN main ELSE Sgn(s1.dot - s2.dot)

CompareAscending(a, b) == ScoreDiff(a.score, b.score)
\* (a, b) => b.score - a.score (510)
CompareDescending(a, b) == ScoreDiff(b.score, a.score)

\* Array.prototype.sort with that comparator: stable, so an element goes
\* before the first one the comparator puts it strictly before.
InsertSorted(sorted, x) ==
    LET RECURSIVE Pos(_)
        Pos(i) == IF i > Len(sorted) \/ CompareDescending(sorted[i], x) > 0
                  THEN i ELSE Pos(i + 1)
        p == Pos(1)
    IN SubSeq(sorted, 1, p - 1) \o <<x>> \o SubSeq(sorted, p, Len(sorted))
SortByScore(items) ==
    LET RECURSIVE Sorted(_)
        Sorted(n) == IF n = 0 THEN <<>> ELSE InsertSorted(Sorted(n - 1), items[n])
    IN Sorted(Len(items))

SliceAll(seq, k) == seq
\* Array.prototype.slice(0, k): a negative k counts from the end.
SliceTo(seq, k) ==
    IF k < 0 THEN SubSeq(seq, 1, IF Len(seq) + k < 0 THEN 0 ELSE Len(seq) + k)
    ELSE SubSeq(seq, 1, Min(k, Len(seq)))

\* The scores of all stored vectors (504-507).
Scores(store, qv) ==
    [i \in 1..Len(store.embeddings) |->
        [idx |-> i - 1, score |-> CosineSimilarity(qv, store.embeddings[i])]]

\* scores.sort(...).slice(0, topK).map(...) (510-519)
Rank(store, qv, k) ==
    LET top == SliceTo(SortByScore(Scores(store, qv)), k)
    IN [j \in 1..Len(top) |->
          [pageContent |-> store.chunks[top[j].idx + 1],
           metadata |-> store.metadata[top[j].idx + 1],
           score |-> top[j].score]]

\* retrieveDocuments(input, storeId, 4) of the agent (page.tsx 290).
TopKOfAgent == 4

\* The queries, and embeddings.embedQuery(query): the provider's vector of
\* the query text.
Queries == {<<>>, <<"a">>, <<"b">>, <<"a", "b">>}
EmbedQuery(q) == EmbeddingOf(q)

\* ------------------------------------------------------------ the agent's values
\* JavaScript values, tagged with their type: the content of a language-model
\* message once parsed, and the response of chatbotGraph.
Str(x) == <<"string", x>>
Num(n) == <<"number", n>>
Arr(seq) == <<"array", seq>>
Obj(rec) == <<"object", rec>>
Null == <<"null">>
Undefined == <<"undefined">>

\* obj.f
Get(obj, f) == IF f \in DOMAIN obj[2] THEN obj[2][f] ELSE Undefined

SubstringAll(str, n) == str
\* String.prototype.substring(0, n)
Substring(str, n) == SubSeq(str, 1, Min(n, Len(str)))

\* documentStore once initializeDocumentStore ran (page.tsx 234-245); a
\* source is a path, here of one segment.
StaticDocs ==
    << [pageContent |-> <<"y", "o", "u", "r">>, metadata |-> [source |-> <<"example">>]],
       [pageContent |-> <<"l", "a", "n", "g">>, metadata |-> [source |-> <<"langchain">>]] >>

NoFallbackDocs(k) == <<>>
\* docs.slice(0, topK).map(...) of the in-memory store (275-279).
FallbackDocs(k) == SliceTo(StaticDocs, k)

\* The content of a language-model message, as tokens: text without braces,
\* a brace, or a member "name": value of a JSON object, its value parsed.
LBrace == <<"{">>
RBrace == <<"}">>
Txt == <<"txt">>
Member(name, value) == <<"member", name, value>>

Positions(tokens, ch) == {i \in 1..Len(tokens) : tokens[i][1] = ch}
Lowest(S) == CHOOSE i \in S : \A j \in S : i <= j
Highest(S) == CHOOSE i \in S : \A j \in S : i >= j

\* From the first "{" to the first "}" after it.
MatchFirstObject(tokens) ==
    LET opens == Positions(tokens, "{")
        closes == {j \in Positions(tokens, "}") : opens # {} /\ j > Lowest(opens)}
    IN IF closes = {} THEN None ELSE Some(SubSeq(tokens, Lowest(opens), Lowest(closes)))

\* responseContent.match(/\{[\s\S]*\}/) (366): the quantifier is greedy, so
\* the match runs from the first "{" to the last "}" of the content.
RegexMatch(tokens) ==
    LET opens == Positions(tokens, "{")
        closes == {j \in Positions(tokens, "}") : opens # {} /\ j > Lowest(opens)}
    IN IF closes = {} THEN None ELSE Some(SubSeq(tokens, Lowest(opens), Highest(closes)))

\* JSON.parse of a text that starts with "{": the object of its members, the
\* last of a name winning, or None when it throws.
JSONParseObject(tokens) ==
    LET n == Len(tokens)
        names == {tokens[i][2] : i \in 2..(n - 1)}
    IN IF /\ n >= 2
          /\ tokens[1][1] = "{" /\ tokens[n][1] = "}"
          /\ \A i \in 2..(n - 1) : tokens[i][1] = "member"
       THEN Some(Obj([f \in names |->
                tokens[Highest({i \in 2..(n - 1) : tokens[i][2] = f})][3]]))
       ELSE None

\* A complete response object, as the prompt asks for it (324-331).
CompleteObject ==
    << LBrace,
       Member("answer", Str(<<"ans">>)),
       Member("citations", Arr(<< Obj([text |-> Str(<<"t">>), source |-> Str(<<"example">>),
                                       chunkIndex |-> Num(0)]) >>)),
       Member("confidence", Str("high")),
       RBrace >>

\* The contents a language-model message may have.
LMOutputs ==
    {"text", "broken", "complete", "noAnswer", "wrongTypes", "noCitations",
     "bareCitation", "nullCitation", "wrapped", "trailingBraces", "citesUpload",
     "noneCited"}
LMText(out) ==
    CASE out = "text" -> <<Txt>>
      [] out = "broken" -> <<LBrace, Txt, RBrace>>
      [] out = "complete" -> CompleteObject
      [] out = "noAnswer" -> <<LBrace, Member("citations", Arr(<<>>)), RBrace>>
      [] out = "wrongTypes" ->
            <<LBrace, Member("answer", Num(42)), Member("citations", Arr(<<>>)),
              Member("confidence", Str("sure")), RBrace>>
      [] out = "noCitations" ->
            <<LBrace, Member("answer", Str(<<"ans">>)), Member("confidence", Str("high")),
              RBrace>>
      [] out = "bareCitation" ->
            <<LBrace, Member("answer", Str(<<"ans">>)),
              Member("citations", Arr(<< Obj([source |-> Str(<<"nofile">>)]) >>)),
              Member("confidence", Str("low")), RBrace>>
      [] out = "nullCitation" ->
            <<LBrace, Member("answer", Str(<<"ans">>)),
              Member("citations", Arr(<< Null >>)),
              Member("confidence", Str("low")), RBrace>>
      [] out = "noneCited" ->
            <<LBrace, Member("answer", Str(<<"ans">>)), Member("citations", Arr(<<>>)),
              Member("confidence", Str("high")), RBrace>>
      [] out = "wrapped" -> <<Txt>> \o CompleteObject \o <<Txt>>
      [] out = "citesUpload" ->
            <<LBrace, Member("answer", Str(<<"ans">>)),
              Member("citations", Arr(<< Obj([text |-> Str(<<"t">>),
                                              source |-> Str(FilePath("L")),
                                              chunkIndex |-> Num(3)]) >>)),
              Member("confidence", Str("high")), RBrace>>
      [] OTHER -> CompleteObject \o <<Txt, LBrace, Txt, RBrace>>

\* Whether the pattern matches the content, and what JSON.parse makes of the
\* match (None when it throws) (366-370).
LMContent(out) ==
    LET m == RegexMatch(LMText(out))
    IN [match |-> m # None,
        json |-> IF m = None THEN None ELSE JSONParseObject(m[1])]

EnrichNothing(citation, docs) == citation
\* One citation enriched (373-381): its text is replaced by the start of the
\* retrieved document of the same source, when there is one and it is not
\* empty.
Enrich(citation, docs) ==
    LET src == Get(citation, "source")
        hits == {i \in 1..Len(docs) : src[1] = "string" /\ docs[i].metadata.source = src[2]}
        first == CHOOSE i \in hits : \A j \in hits : i <= j
        snippet == IF hits # {} /\ Substring(docs[first].pageContent, 200) # <<>>
                   THEN Str(Substring(docs[first].pageContent, 200))
                   ELSE Get(citation, "text")
    IN Obj([f \in DOMAIN citation[2] \cup {"text"} |->
              IF f = "text" THEN snippet ELSE citation[2][f]])

\* The response built from the retrieved documents when the content cannot be
\* used (390-400).
Fallback(docs, out) ==
    LET top == SliceTo(docs, 3)
        Source(m) == IF "source" \in DOMAIN m /\ m.source # <<>>
                     THEN m.source ELSE <<"unknown">>
        Index(m, idx) == IF "chunkIndex" \in DOMAIN m /\ m.chunkIndex # 0
                         THEN m.chunkIndex ELSE idx
    IN Obj([answer |-> Str(LMText(out)),
            citations |-> Arr([i \in 1..Len(top) |->
                Obj([text |-> Str(Substring(top[i].pageContent, 200)),
                     source |-> Str(Source(top[i].metadata)),
                     chunkIndex |-> Num(Index(top[i].metadata, i - 1))])]),
            confidence |-> Str("medium")])

\* The parsed object alone, undefined when there is none.
RespondParsed(docs, out) ==
    IF LMContent(out).json = None THEN Undefined ELSE LMContent(out).json[1]

\* What chatbotGraph returns for the content out (362-400): the parsed object
\* with its citations enriched, or the fallback when there is no match or
\* JSON.parse, citations.map or the read of a citation's source throws.
Respond(docs, out) ==
    LET c == LMContent(out)
        parsed == c.json[1]
        cited == Get(parsed, "citations")
        usable == /\ c.match
                  /\ c.json # None
                  /\ cited[1] = "array"
                  /\ \A i \in 1..Len(cited[2]) : cited[2][i][1] = "object"
    IN IF usable
       THEN Obj([f \in DOMAIN parsed[2] \cup {"citations"} |->
                   IF f = "citations"
                   THEN Arr([i \in 1..Len(cited[2]) |-> Enrich(cited[2][i], docs)])
                   ELSE parsed[2][f]])
       ELSE Fallback(docs, out)

UnanswerableMedium ==
    Obj([answer |-> Str("Sorry, I couldn't find relevant information to answer your question."),
         citations |-> Arr(<<>>), confidence |-> Str("medium")])
\* The response to a question with no retrieved document (296-300).
Unanswerable ==
    Obj([answer |-> Str("Sorry, I couldn't find relevant information to answer your question."),
         citations |-> Arr(<<>>), confidence |-> Str("low")])

\* ------------------------------------------------------------ chatbotGraph
\* The event of the request tk: chatbotGraph returned resp or threw, and
\* POST /api/chat answers 200 or 500 (route.ts 30-46).
ChatEvent(tk, cause, resp, out) ==
    [Event("chat", tk.id) EXCEPT
        !.ok = (cause = "none"), !.cause = cause, !.query = tk.query,
        !.embeds = tk.embeds, !.loaded = tk.loaded, !.docs = tk.docs,
        !.retrieval = tk.retrieval, !.hasStore = tk.hasStore, !.llm = tk.llm,
        !.response = resp, !.output = out,
        !.status = IF cause = "none" THEN 200 ELSE 500]

InvokesRetried(n) == n + 2
\* The llm.invoke calls made after the one of chatbotGraph (352): it is not in
\* a loop, and its catch throws (353-359).
Invokes(n) == n + 1

\* retrieveDocuments returned docs to chatbotGraph (290): with none it returns
\* the fixed response (295-301), else it builds the prompt and awaits
\* llm.invoke (352).
ChatRetrieved(t, tk, docs, outcome) ==
    LET now == [tk EXCEPT !.op = "chat", !.docs = docs, !.retrieval = outcome,
                          !.entry = None, !.buf = None]
    IN IF Len(docs) = 0
       THEN /\ task' = Finish(t)
            /\ returned' = Some(ChatEvent(now, "none", Some(Unanswerable), "none"))
       ELSE /\ task' = [task EXCEPT ![t] = [now EXCEPT !.pc = "llm", !.llm = Invokes(@)]]
            /\ returned' = None

\* ------------------------------------------------------------ getSuggestedTopics
\* The content of the message asked for topics is a sequence of tokens: "[",
\* "]", a line break, an element of a JSON array with its separator, or text
\* with none of these in it.
LBracket == <<"[">>
RBracket == <<"]">>
Newline == <<"nl">>
Element(value) == <<"element", value>>

\* content.match(/\[.*\]/) (439): the match starts at the first "[" that has a
\* "]" after it on its line and runs to the last "]" of that line, for "."
\* takes no line break and "*" is greedy. None is null.
ArrayMatch(tokens) ==
    LET SameLine(i, j) == \A k \in i..j : tokens[k] # Newline
        Ends(i) == {j \in Positions(tokens, "]") : j > i /\ SameLine(i, j)}
        starts == {i \in Positions(tokens, "[") : Ends(i) # {}}
    IN IF starts = {} THEN None
       ELSE Some(SubSeq(tokens, Lowest(starts), Highest(Ends(Lowest(starts)))))

\* JSON.parse(match[0]) (441): the array of the elements between the
\* brackets, whatever their types and number; None when it throws.
JSONParseArray(tokens) ==
    IF /\ Len(tokens) >= 2
       /\ tokens[1] = LBracket /\ tokens[Len(tokens)] = RBracket
       /\ \A i \in 2..(Len(tokens) - 1) : tokens[i][1] = "element"
    THEN Some(Arr([i \in 1..(Len(tokens) - 2) |-> tokens[i + 1][2]]))
    ELSE None

Topic(name) == Element(Str(<<name>>))
TopicOutputs ==
    {"five", "six", "numbers", "plain", "malformed", "wrappedArray", "twoArrays",
     "multiline", "emptyArray"}
\* The contents the language model is taken to answer with.
TopicText(out) ==
    CASE out = "five" ->
            <<LBracket, Topic("t1"), Topic("t2"), Topic("t3"), Topic("t4"), Topic("t5"),
              RBracket>>
      [] out = "six" ->
            <<LBracket, Topic("t1"), Topic("t2"), Topic("t3"), Topic("t4"), Topic("t5"),
              Topic("t6"), RBracket>>
      [] out = "numbers" -> <<LBracket, Element(Num(1)), Element(Num(2)), RBracket>>
      [] out = "plain" -> <<Txt>>
      [] out = "malformed" -> <<LBracket, Txt, RBracket>>
      [] out = "wrappedArray" -> <<Txt, LBracket, Topic("t1"), Topic("t2"), RBracket, Txt>>
      [] out = "twoArrays" ->
            <<LBracket, Topic("t1"), RBracket, Txt, LBracket, Topic("t2"), RBracket>>
      [] out = "multiline" ->
            <<LBracket, Newline, Topic("t1"), Newline, Topic("t2"), Newline, RBracket>>
      [] OTHER -> <<LBracket, RBracket>>

\* The list returned when nothing else was (447-453).
DefaultTopics ==
    <<Str(<<"Summary">>), Str(<<"Key findings">>), Str(<<"Methods">>),
      Str(<<"Conclusions">>), Str(<<"Recommendations">>)>>

\* What is returned for the content out (438-442): the parsed match as it is,
\* or the default list when there is no match or JSON.parse threw into the
\* catch.
SuggestedTopics(out) ==
    LET match == ArrayMatch(TopicText(out))
    IN IF match = None THEN DefaultTopics
       ELSE IF JSONParseArray(match[1]) = None THEN DefaultTopics
       ELSE JSONParseArray(match[1])[1][2]

Rethrown(cause) == cause
\* What the caller of getSuggestedTopics sees of an error thrown in its try
\* block: the catch logs it and falls through (443-445).
Caught(cause) == "none"

\* The event of the topics request tk: getSuggestedTopics returned topics,
\* and POST /api/topics answers 200, or 500 from its catch (route.ts 16-29).
TopicsEvent(tk, cause, topics, out) ==
    [Event("topics", tk.id) EXCEPT
        !.ok = (cause = "none"), !.cause = cause, !.query = tk.query, !.topK = tk.topK,
        !.embeds = tk.embeds, !.loaded = tk.loaded, !.docs = tk.docs,
        !.retrieval = tk.retrieval, !.hasStore = TRUE, !.llm = tk.llm,
        !.response = IF cause = "none" THEN Some(Arr(topics)) ELSE None,
        !.output = out,
        !.status = IF cause = "none" THEN 200 ELSE 500]

\* retrieveFromVectorStore settled for getSuggestedTopics (424): its error
\* goes to the catch and the default list is returned, else the prompt is
\* built from the sample, empty or not, and llm.invoke awaited (430).
TopicsRetrieved(t, tk, ev) ==
    LET now == [tk EXCEPT !.op = "topics", !.entry = None, !.buf = None,
                          !.docs = IF ev.ok THEN ev.results ELSE <<>>,
                          !.retrieval = IF ev.ok THEN "ok" ELSE ev.cause]
    IN IF ev.ok
       THEN /\ task' = [task EXCEPT ![t] = [now EXCEPT !.pc = "llm", !.llm = Invokes(@)]]
            /\ returned' = None
       ELSE /\ task' = Finish(t)
            /\ returned' = Some(TopicsEvent(now, Caught(ev.cause), DefaultTopics, "none"))

RetrieveEvent(tk, cause) ==
    [Event("retrieve", tk.id) EXCEPT
        !.ok = (cause = "none"), !.cause = cause, !.embeds = tk.embeds,
        !.query = tk.query, !.topK = tk.topK, !.entry = tk.entry,
        !.loaded = tk.loaded]

\* retrieveFromVectorStore settles with ev: for its caller, or for
\* retrieveDocuments, which returns the results or catches the error and
\* returns the in-memory documents (266-279).
RetrieveSettles(t, tk, ev) ==
    IF tk.via = "topics"
    THEN TopicsRetrieved(t, tk, ev)
    ELSE IF tk.via # "chat"
    THEN /\ task' = Finish(t)
         /\ returned' = Some(ev)
    ELSE ChatRetrieved(t, tk, IF ev.ok THEN ev.results ELSE FallbackDocs(tk.topK),
                       IF ev.ok THEN "ok" ELSE ev.cause)

EmbedQueryCallsAlways(store) == 1
\* The embedQuery calls made once loadVectorStore returned store: none when it
\* is null, for the call throws first (481-483).
EmbedQueryCalls(store) == IF store = None THEN 0 ELSE 1

\* The call up to its first suspension: loadVectorStore(storeId) returns the
\* cached entry and embedQuery is called (496), or it reads store.json, or it
\* returns null and the call throws (481-483).
CallRetrieve(t, id, q, k, via, limit) ==
    /\ Free(t)
    /\ Cardinality(InFlight) < limit
    /\ LET called == [Call("retrieve", id, "A", "embedQuery") EXCEPT
                         !.query = q, !.topK = k, !.via = via, !.hasStore = TRUE]
           hit == CacheLookup(vectorStoreCache, id)
       IN IF hit # None
          THEN /\ task' = [task EXCEPT ![t] =
                     [called EXCEPT !.entry = hit, !.embeds = EmbedQueryCalls(hit)]]
               /\ returned' = None
          ELSE IF dirs[id]
          THEN /\ task' = [task EXCEPT ![t] = [called EXCEPT !.pc = "readStore"]]
               /\ returned' = None
          ELSE RetrieveSettles(t, called,
                   [RetrieveEvent(called, "notFound") EXCEPT !.embeds = EmbedQueryCalls(None)])
    /\ UNCHANGED <<vectorStoreCache, dirs, storeFile, metaFile, indexed, deletedOk, idleVars>>

\* fs.readFile of the retrieval's loadVectorStore.
RetrieveRead(t) ==
    /\ task[t].op = "retrieve" /\ task[t].pc = "readStore"
    /\ task' = [task EXCEPT ![t].pc = "loaded", ![t].buf = storeFile[task[t].id]]
    /\ returned' = None
    /\ UNCHANGED <<vectorStoreCache, dirs, storeFile, metaFile, indexed, deletedOk, idleVars>>

\* loadVectorStore resumes: it caches and returns the entry and embedQuery is
\* called, or it returns null and the retrieval throws.
RetrieveLoaded(t) ==
    /\ task[t].op = "retrieve" /\ task[t].pc = "loaded"
    /\ LET got == Deserialize(task[t].buf)
       IN IF got = None
          THEN /\ RetrieveSettles(t, task[t],
                      [RetrieveEvent(task[t], "notFound") EXCEPT
                          !.embeds = EmbedQueryCalls(got)])
               /\ UNCHANGED vectorStoreCache
          ELSE /\ vectorStoreCache' = SetCache(vectorStoreCache, task[t].id, got[1])
               /\ task' = [task EXCEPT ![t].pc = "embedQuery", ![t].entry = got,
                                        ![t].buf = None, ![t].embeds = EmbedQueryCalls(got),
                                        ![t].loaded = TRUE]
               /\ returned' = None
    /\ UNCHANGED <<dirs, storeFile, metaFile, indexed, deletedOk, idleVars>>

LatestStore(held, cache, id) == IF cache[id] # None THEN cache[id] ELSE held
\* The store the scores and the results are computed from once embedQuery
\* resolved (503-519): the object loadVectorStore returned before it (480),
\* whatever the cache holds by then.
HeldStore(held, cache, id) == held

\* embedQuery settles: it throws and the retrieval throws an error with its
\* message (497-501), or the stored vectors are ranked and the first topK
\* returned.
RetrieveEmbedded(t) ==
    /\ task[t].op = "retrieve" /\ task[t].pc = "embedQuery"
    /\ \/ RetrieveSettles(t, task[t], RetrieveEvent(task[t], "embed"))
       \/ RetrieveSettles(t, task[t],
             [RetrieveEvent(task[t], "none") EXCEPT
                 !.results = Rank(HeldStore(task[t].entry, vectorStoreCache, task[t].id)[1],
                                  EmbedQuery(task[t].query), task[t].topK)])
    /\ UNCHANGED <<vectorStoreCache, dirs, storeFile, metaFile, indexed, deletedOk, idleVars>>

\* chatbotGraph({input, storeId}) up to its first suspension: with a storeId
\* retrieveDocuments calls retrieveFromVectorStore (265-267), without one it
\* returns the in-memory documents.
CallChatbotGraph(t, input, storeId, limit) ==
    IF storeId = None
    THEN /\ Free(t)
         /\ Cardinality(InFlight) < limit
         /\ ChatRetrieved(t, [Call("chat", "d1", "A", "llm") EXCEPT
                                 !.query = input, !.topK = TopKOfAgent, !.via = "chat"],
                          FallbackDocs(TopKOfAgent), "none")
         /\ UNCHANGED <<vectorStoreCache, dirs, storeFile, metaFile, indexed, deletedOk,
                        idleVars>>
    ELSE CallRetrieve(t, storeId[1], input, TopKOfAgent, "chat", limit)

\* llm.invoke settles: it throws and chatbotGraph throws (353-359), or the
\* content of its message is made into the response.
ChatInvoked(t) ==
    /\ task[t].op = "chat" /\ task[t].pc = "llm"
    /\ task' = Finish(t)
    /\ \/ returned' = Some(ChatEvent(task[t], "llm", None, "none"))
       \/ \E out \in LMOutputs :
             returned' = Some(ChatEvent(task[t], "none",
                                        Some(Respond(task[t].docs, out)), out))
    /\ UNCHANGED <<vectorStoreCache, dirs, storeFile, metaFile, indexed, deletedOk, idleVars>>

\* The sample size and the query of getSuggestedTopics (424).
TopKOfTopics == 2
TopicsQuery == <<"a", "b">>

\* POST /api/topics up to its first suspension: 400 without a storeId
\* (route.ts 9-14), else getSuggestedTopics(storeId) calls
\* retrieveFromVectorStore(storeId, "overview summary", 2).
CallGetSuggestedTopics(t, storeId, limit) ==
    IF storeId = None
    THEN /\ Free(t)
         /\ Cardinality(InFlight) < limit
         /\ task' = task
         /\ returned' = Some([Event("topics", "d1") EXCEPT !.status = 400])
         /\ UNCHANGED <<vectorStoreCache, dirs, storeFile, metaFile, indexed, deletedOk,
                        idleVars>>
    ELSE CallRetrieve(t, storeId[1], TopicsQuery, TopKOfTopics, "topics", limit)

\* llm.invoke of getSuggestedTopics settles: it throws into the catch and the
\* default list is returned, or the content of its message is matched and
\* parsed.
TopicsInvoked(t) ==
    /\ task[t].op = "topics" /\ task[t].pc = "llm"
    /\ task' = Finish(t)
    /\ \/ returned' = Some(TopicsEvent(task[t], Caught("llm"), DefaultTopics, "threw"))
       \/ \E out \in TopicOutputs :
             returned' = Some(TopicsEvent(task[t], "none", SuggestedTopics(out), out))
    /\ UNCHANGED <<vectorStoreCache, dirs, storeFile, metaFile, indexed, deletedOk, idleVars>>

\* ------------------------------------------------------------ deleteVectorStore
\* fs.rmSync(storePath, {recursive: true, force: true}) on one file of it
Remove(file) == None

\* the value deleteVectorStore returns (566-571)
DeleteReturn(dirExists) == dirExists

\* Synchronous: the cache entry, then the directory with both files. A
\* writeFile that has a file of the directory open keeps an unlinked file.
DeleteVectorStore(id, limit) ==
    /\ Cardinality(InFlight) < limit
    /\ vectorStoreCache' = [vectorStoreCache EXCEPT ![id] = None]
    /\ dirs' = [dirs EXCEPT ![id] = FALSE]
    /\ storeFile' = [storeFile EXCEPT ![id] = IF dirs[id] THEN Remove(@) ELSE @]
    /\ metaFile' = [metaFile EXCEPT ![id] = IF dirs[id] THEN Remove(@) ELSE @]
    /\ task' = [u \in Tasks |->
          IF task[u].id = id /\ task[u].fd = "live"
          THEN [task[u] EXCEPT !.fd = "unlinked"]
          ELSE task[u]]
    /\ returned' = Some([Event("delete", id) EXCEPT !.ret = DeleteReturn(dirs[id])])
    /\ deletedOk' = [deletedOk EXCEPT ![id] = DeleteReturn(dirs[id])]
    /\ indexed' = [indexed EXCEPT ![id] = None]
    /\ UNCHANGED idleVars

\* ------------------------------------------------------------ listVectorStores
\* readdirSync(VECTOR_STORE_DIR).filter(isDirectory) (530-534)
ListVectorStores == {id \in Ids : dirs[id]}

CallList(limit) ==
    /\ Cardinality(InFlight) < limit
    /\ returned' = Some([Event("list", "d1") EXCEPT !.listed = ListVectorStores])
    /\ UNCHANGED <<vectorStoreCache, dirs, storeFile, metaFile, task, indexed, deletedOk, idleVars>>

\* ------------------------------------------------------------ saveVectorStoreMetadata
\* Synchronous: mkdirSync when the directory is missing (547-549), then
\* writeFileSync of metadata.json (551-554).
SaveVectorStoreMetadata(id, doc, limit) ==
    /\ Cardinality(InFlight) < limit
    /\ dirs' = [dirs EXCEPT ![id] = TRUE]
    /\ metaFile' = [metaFile EXCEPT ![id] = Some(JSONStringifyMeta(RouteMeta(doc)))]
    /\ returned' = Some([Event("save", id) EXCEPT !.doc = doc])
    /\ UNCHANGED <<vectorStoreCache, storeFile, task, indexed, deletedOk, idleVars>>

\* ------------------------------------------------------------ the process
\* The server process is restarted while no request is in flight: the cache
\* is a new empty Map (292), the files stay.
Restart ==
    /\ InFlight = {}
    /\ \E id \in Ids : vectorStoreCache[id] # None
    /\ vectorStoreCache' = [id \in Ids |-> None]
    /\ returned' = None
    /\ UNCHANGED <<dirs, storeFile, metaFile, task, indexed, deletedOk, idleVars>>

\* ------------------------------------------------------------ PDFUploader
\* The topic lists a topics response carries.
TopicLists == {<<"t1">>, <<"t2">>}

\* No handleFileSelect is running. While one runs, suggestedTopics is the
\* constant of the render that made it (part_001 48, 50) and data the body of
\* the upload response.
IdleHandler == [pc |-> "idle", suggestedTopics |-> <<>>, data |-> None]

\* The component as mounted (part_001 42-48).
UploaderInit ==
    /\ suggestedTopics = <<>> /\ isLoading = FALSE /\ error = None
    /\ uploadedPDFs = <<>> /\ showUploadForm = FALSE
    /\ handler = IdleHandler /\ uploadSuccess = None

\* The value the name suggestedTopics has inside a running handleFileSelect:
\* the one captured when the handler was made, not the state that
\* setSuggestedTopics has set since (part_001 95, 107).
ClosureValue(state, captured) == captured

\* handleFileSelect up to its first await (part_001 50-66): no file returns, a
\* file that is no PDF sets the error, a PDF is posted to /api/upload. The
\* input is rendered while the form shows and disabled while isLoading
\* (part_001 140-151).
HandleFileSelect(file) ==
    /\ handler.pc = "idle" /\ showUploadForm /\ ~isLoading
    /\ Len(uploadedPDFs) < MaxUploads
    /\ uploadSuccess' = None
    /\ IF file = "none" THEN UNCHANGED <<isLoading, error, handler>>
       ELSE IF file # "pdf"
       THEN /\ error' = Some("Please select a PDF file")
            /\ UNCHANGED <<isLoading, handler>>
       ELSE /\ isLoading' = TRUE
            /\ error' = None
            /\ handler' = [IdleHandler EXCEPT !.pc = "upload",
                                              !.suggestedTopics = suggestedTopics]
    /\ UNCHANGED <<suggestedTopics, uploadedPDFs, showUploadForm, splitVars, storeVars>>

\* The upload response arrives (part_001 68-82): fetch rejects or the
\* response is not ok and the catch sets the error (108-111), or the PDF of
\* data.storeId, a fresh uuid, is put first in the list and /api/topics is
\* posted.
UploadResponded ==
    /\ handler.pc = "upload"
    /\ uploadSuccess' = None
    /\ \/ /\ error' = Some("Upload failed")
          /\ isLoading' = FALSE
          /\ handler' = IdleHandler
          /\ UNCHANGED uploadedPDFs
       \/ \E id \in Ids :
             /\ \A i \in 1..Len(uploadedPDFs) : uploadedPDFs[i] # id
             /\ uploadedPDFs' = <<id>> \o uploadedPDFs
             /\ handler' = [handler EXCEPT !.pc = "topics", !.data = Some(id)]
             /\ UNCHANGED <<error, isLoading>>
    /\ UNCHANGED <<suggestedTopics, showUploadForm, splitVars, storeVars>>

\* The topics response arrives (part_001 85-112): a response that is ok sets
\* the state to topicsData.topics || [], a rejected fetch is caught and a
\* response that is not ok skipped; then the form is hidden, onUploadSuccess
\* is called and isLoading reset. got is None when no topics came.
TopicsResponded ==
    /\ handler.pc = "topics"
    /\ \E got \in {None} \cup {Some(l) : l \in TopicLists \cup {<<>>}} :
          /\ suggestedTopics' = IF got = None THEN suggestedTopics ELSE got[1]
          /\ uploadSuccess' =
                Some([storeId |-> handler.data[1],
                      suggestedTopics |->
                          ClosureValue(suggestedTopics', handler.suggestedTopics),
                      topics |-> got])
    /\ showUploadForm' = FALSE
    /\ isLoading' = FALSE
    /\ handler' = IdleHandler
    /\ UNCHANGED <<error, uploadedPDFs, splitVars, storeVars>>

\* handleDeletePDF(storeId) (part_001 115-120) on a PDF of the list.
HandleDeletePDF(storeId) ==
    /\ \E i \in 1..Len(uploadedPDFs) : uploadedPDFs[i] = storeId
    /\ uploadedPDFs' = SelectSeq(uploadedPDFs, LAMBDA pdf : pdf # storeId)
    /\ uploadSuccess' = None
    /\ UNCHANGED <<suggestedTopics, isLoading, error, showUploadForm, handler, splitVars,
                   storeVars>>

\* The button that shows and hides the upload form (part_001 130-132).
ToggleUploadForm ==
    /\ showUploadForm' = ~showUploadForm
    /\ uploadSuccess' = None
    /\ UNCHANGED <<suggestedTopics, isLoading, error, uploadedPDFs, handler, splitVars,
                   storeVars>>

\* ------------------------------------------------------------ specifications
SplitIdle ==
    /\ text = <<>> /\ chunkSize = 1 /\ chunkOverlap = 0
    /\ startIndex = 0 /\ endIndex = 0 /\ chunks = <<>> /\ splitPc = "off"

StoreInit ==
    /\ vectorStoreCache = [id \in Ids |-> None]
    /\ dirs = [id \in Ids |-> FALSE]
    /\ storeFile = [id \in Ids |-> None]
    /\ metaFile = [id \in Ids |-> None]
    /\ task = [t \in Tasks |-> IdleTask]
    /\ returned = None
    /\ indexed = [id \in Ids |-> None]
    /\ deletedOk = [id \in Ids |-> FALSE]

Init == SplitIdle /\ StoreInit /\ UploaderInit

\* What a request does once called.
Resume(t) ==
    \/ CreateParsed(t)
    \/ CreateSplit(t)
    \/ CreateEmbedded(t)
    \/ CreateMkdir(t)
    \/ CreateOpenStore(t)
    \/ CreateWriteStore(t)
    \/ CreateWriteRest(t)
    \/ CreateOpenMeta(t)
    \/ CreateWriteMeta(t)
    \/ LoadRead(t)
    \/ LoadResume(t)

\* A new request on one of ids, with fewer than limit others in flight, and
\* for a createVectorStore fewer than writers others of them in flight.
Calls(ids, limit, writers) ==
    \/ \E t \in Tasks, id \in ids, doc \in Docs : CallCreate(t, id, doc, limit, writers)
    \/ \E t \in Tasks, id \in ids : CallLoad(t, id, limit)
    \/ \E id \in ids : DeleteVectorStore(id, limit)
    \/ CallList(limit)
    \/ \E id \in ids : SaveVectorStoreMetadata(id, "A", limit)

\* Requests on one id, NumTasks of them in flight at a time.
Next == Calls({"d1"}, NumTasks, NumTasks) \/ (\E t \in Tasks : Resume(t)) \/ Restart

Spec == Init /\ [][Next]_vars

\* Requests on one id, NumTasks in flight, one createVectorStore at a time.
NextOneWriter == Calls({"d1"}, NumTasks, 1) \/ (\E t \in Tasks : Resume(t)) \/ Restart

SpecOneWriter == Init /\ [][NextOneWriter]_vars

\* createVectorStore, retrievals and deletes on one id, NumTasks requests in
\* flight, one createVectorStore at a time.
NextStore ==
    \/ \E t \in Tasks, doc \in {"A", "B"} : CallCreate(t, "d1", doc, NumTasks, 1)
    \/ \E t \in Tasks : CreateParsed(t)
    \/ \E t \in Tasks : CreateSplit(t)
    \/ \E t \in Tasks : CreateEmbedded(t)
    \/ \E t \in Tasks : CreateMkdir(t)
    \/ \E t \in Tasks : CreateOpenStore(t)
    \/ \E t \in Tasks : CreateWriteStore(t)
    \/ \E t \in Tasks : CreateWriteRest(t)
    \/ \E t \in Tasks : CreateOpenMeta(t)
    \/ \E t \in Tasks : CreateWriteMeta(t)
    \/ \E t \in Tasks : CallRetrieve(t, "d1", <<"a">>, TopKOfAgent, "direct", NumTasks)
    \/ \E t \in Tasks : RetrieveRead(t)
    \/ \E t \in Tasks : RetrieveLoaded(t)
    \/ \E t \in Tasks : RetrieveEmbedded(t)
    \/ DeleteVectorStore("d1", NumTasks)
    \/ Restart

SpecStore == Init /\ [][NextStore]_vars

\* Every operation of the vector store on two ids, one request at a time.
NextOps ==
    \/ Calls(Ids, 1, 1)
    \/ \E t \in Tasks : Resume(t)
    \/ \E t \in Tasks, id \in Ids : CallRetrieve(t, id, <<"a">>, TopKOfAgent, "direct", 1)
    \/ \E t \in Tasks : RetrieveRead(t)
    \/ \E t \in Tasks : RetrieveLoaded(t)
    \/ \E t \in Tasks : RetrieveEmbedded(t)
    \/ Restart

SpecOps == Init /\ [][NextOps]_vars

\* The PDF route, loads, deletes and restarts, one request at a time.
NextPdf ==
    \/ \E t \in Tasks, kind \in {"notMultipart", "noFile", "notPdf", "pdf"}, doc \in Docs :
          UploadPdfPost(t, kind, doc, 1)
    \/ \E t \in Tasks : Resume(t)
    \/ \E t \in Tasks, id \in Ids : CallLoad(t, id, 1)
    \/ \E id \in Ids : DeleteVectorStore(id, 1)
    \/ Restart

SpecPdf == Init /\ [][NextPdf]_vars

\* The PDFUploader: file selections, the responses to its requests, deletions
\* from its list and the form button.
NextUploader ==
    \/ \E file \in {"none", "txt", "pdf"} : HandleFileSelect(file)
    \/ UploadResponded
    \/ TopicsResponded
    \/ \E id \in Ids : HandleDeletePDF(id)
    \/ ToggleUploadForm

SpecUploader == Init /\ [][NextUploader]_vars

\* Requests on two ids, one at a time.
NextSeq == Calls(Ids, 1, 1) \/ (\E t \in Tasks : Resume(t)) \/ Restart

SpecSeq == Init /\ [][NextSeq]_vars

\* The textContent route and createVectorStore(fileName, textContent,
\* storeId) on both ids, createVectorStore(filePath, storeId) on the PDFs
\* without text, loads, deletes and restarts, one request at a time.
NextUpload ==
    \/ \E t \in Tasks, kind \in {"json", "pdf"}, str \in UploadTexts, parses \in BOOLEAN :
          UploadPost(t, kind, str, parses, 1)
    \/ \E t \in Tasks, id \in Ids, str \in UploadTexts :
          CallCreateText(t, id, str, "direct", 1)
    \/ \E t \in Tasks : CreateTextEmbedded(t)
    \/ \E t \in Tasks, doc \in {"E"} \cup BlankDocs : CallCreate(t, "d1", doc, 1, 1)
    \/ \E t \in Tasks : CreateParsed(t)
    \/ \E t \in Tasks, id \in Ids : CallLoad(t, id, 1)
    \/ \E t \in Tasks : LoadRead(t) \/ LoadResume(t)
    \/ \E id \in Ids : DeleteVectorStore(id, 1)
    \/ Restart

SpecUpload == Init /\ [][NextUpload]_vars

\* Retrievals, one at a time, from document d1, stored with any chunks, and
\* from d2, never stored: the process may restart, so the entry is served
\* from the cache or read from store.json, and d1 may be deleted.
RankChunks == {<<"a">>, <<"b">>, <<"a", "a">>}
RankChunkLists == UNION {[1..n -> RankChunks] : n \in 0..MaxRankLen}

RankInit ==
    /\ SplitIdle
    /\ UploaderInit
    /\ \E texts \in RankChunkLists :
          LET e == TextStoreData(texts)
          IN /\ vectorStoreCache = [id \in Ids |-> IF id = "d1" THEN Some(e) ELSE None]
             /\ dirs = [id \in Ids |-> id = "d1"]
             /\ storeFile = [id \in Ids |-> IF id = "d1" THEN Some(JSONStringify(e)) ELSE None]
             /\ metaFile = [id \in Ids |->
                   IF id = "d1" THEN Some(JSONStringifyMeta(TextMeta(texts))) ELSE None]
             /\ indexed = [id \in Ids |-> IF id = "d1" THEN Some(e) ELSE None]
    /\ task = [t \in Tasks |-> IdleTask]
    /\ returned = None
    /\ deletedOk = [id \in Ids |-> FALSE]

NextRank ==
    \/ \E t \in Tasks, id \in Ids, q \in Queries, k \in 0..MaxTopK :
          CallRetrieve(t, id, q, k, "direct", 1)
    \/ \E t \in Tasks : RetrieveRead(t)
    \/ \E t \in Tasks : RetrieveLoaded(t)
    \/ \E t \in Tasks : RetrieveEmbedded(t)
    \/ \E id \in Ids : DeleteVectorStore(id, 1)
    \/ Restart

SpecRank == RankInit /\ [][NextRank]_vars

\* Both createVectorStore on d1, retrievals and questions on both ids and
\* questions without one, loads, deletes and restarts, one request at a time.
NextChat ==
    \/ \E t \in Tasks, doc \in Docs \cup LongDocs : CallCreate(t, "d1", doc, 1, 1)
    \/ \E t \in Tasks : Resume(t)
    \/ \E t \in Tasks, str \in {<<>>, <<"a">>} : CallCreateText(t, "d1", str, "direct", 1)
    \/ \E t \in Tasks : CreateTextEmbedded(t)
    \/ \E t \in Tasks, id \in Ids, q \in Queries : CallRetrieve(t, id, q, TopKOfAgent, "direct", 1)
    \/ \E t \in Tasks, q \in Queries, storeId \in {None} \cup {Some(id) : id \in Ids} :
          CallChatbotGraph(t, q, storeId, 1)
    \/ \E t \in Tasks : ChatInvoked(t)
    \/ \E t \in Tasks : RetrieveRead(t)
    \/ \E t \in Tasks : RetrieveLoaded(t)
    \/ \E t \in Tasks : RetrieveEmbedded(t)
    \/ \E t \in Tasks, id \in Ids : CallLoad(t, id, 1)
    \/ \E id \in Ids : DeleteVectorStore(id, 1)
    \/ Restart

SpecChat == Init /\ [][NextChat]_vars

\* createVectorStore on d1, topic requests on both ids and without one,
\* loads, deletes and restarts, one request at a time.
NextTopics ==
    \/ \E t \in Tasks, doc \in Docs : CallCreate(t, "d1", doc, 1, 1)
    \/ \E t \in Tasks : Resume(t)
    \/ \E t \in Tasks, storeId \in {None} \cup {Some(id) : id \in Ids} :
          CallGetSuggestedTopics(t, storeId, 1)
    \/ \E t \in Tasks : TopicsInvoked(t)
    \/ \E t \in Tasks : RetrieveRead(t)
    \/ \E t \in Tasks : RetrieveLoaded(t)
    \/ \E t \in Tasks : RetrieveEmbedded(t)
    \/ \E t \in Tasks, id \in Ids : CallLoad(t, id, 1)
    \/ \E id \in Ids : DeleteVectorStore(id, 1)
    \/ Restart

SpecTopics == Init /\ [][NextTopics]_vars

\* splitText(text, chunkSize, chunkOverlap) with chunkSize > chunkOverlap >= 0
SplitInit ==
    /\ text \in Texts
    /\ chunkSize \in 1..MaxChunkSize
    /\ chunkOverlap \in 0..(chunkSize - 1)
    /\ startIndex = 0 /\ endIndex = 0 /\ chunks = <<>> /\ splitPc = "loop"
    /\ StoreInit
    /\ UploaderInit

SplitNext == SplitStep \/ SplitExit

SpecSplit == SplitInit /\ [][SplitNext]_vars

\* ------------------------------------------------------------ properties of splitText
\* The last window emitted ends at the end of the text.
ReachedTextEnd == chunks # <<>> /\ endIndex = Len(text)

\* C1: splitText stops once a window has reached the end of the text, for
\* every text and every chunkSize > chunkOverlap >= 0 (also with
\* chunkOverlap > 0 and a non-empty text): no state has the last window at
\* the text end and the loop still running.
C1_StopsAtTextEnd == ReachedTextEnd => splitPc = "done"

\* The chunks with the leading overlap of every chunk after the first removed,
\* concatenated.
Drop(str, n) == SubSeq(str, n + 1, Len(str))
Reconstruct(chs, overlap) ==
    LET RECURSIVE Cat(_)
        Cat(i) == IF i = 0 THEN <<>>
                  ELSE Cat(i - 1) \o (IF i = 1 THEN chs[i] ELSE Drop(chs[i], overlap))
    IN Cat(Len(chs))

Returned(op) == returned # None /\ returned[1].op = op

\* The entry of store.json as loadVectorStore would deserialize it now.
Persisted(id) == Deserialize(storeFile[id])

\* The three sequences are present with equal length.
Complete(e) ==
    /\ Len(e.chunks) > 0
    /\ Len(e.chunks) = Len(e.embeddings)
    /\ Len(e.embeddings) = Len(e.metadata)

\* C3: createIndex is all-or-nothing: when createIndex(documentId), called
\* with neither a cache entry nor a directory for documentId, fails, neither
\* the cache nor the store file holds an entry for documentId afterwards; when
\* it succeeds, the cache and the store file hold the entry it built.
C3_AllOrNothing ==
    Returned("create") =>
        LET ev == returned[1]
        IN IF ev.ok
           THEN /\ ev.entry # None
                /\ vectorStoreCache[ev.id] = ev.entry
                /\ Persisted(ev.id) = ev.entry
           ELSE ev.fresh =>
                /\ vectorStoreCache[ev.id] = None
                /\ Persisted(ev.id) = None

\* C4: a load interleaved with createIndex on the same id returns NotFound or
\* an entry whose chunks, embeddings and metadata are present with equal
\* length, never a partially written one.
C4_LoadNeverPartial ==
    Returned("load") =>
        \/ returned[1].entry = None
        \/ Complete(returned[1].entry[1])

\* C4's case: a load that read store.json while a createVectorStore had it
\* open, written in part, has returned.
C4_Witness ==
    /\ Returned("load")
    /\ returned[1].disk
    /\ returned[1].entry = None
    /\ \E t \in Tasks :
          /\ task[t].op = "create" /\ task[t].pc = "writeRest"
          /\ task[t].id = returned[1].id
          /\ task[t].fd = "live"
          /\ storeFile[task[t].id] # None
          /\ storeFile[task[t].id][1] # <<>>

\* Equal lengths, metadata[i].chunkIndex = i (from 0), and the vector of
\* chunk i computed from the text of chunk i.
EntryOK(e) ==
    /\ Len(e.chunks) = Len(e.embeddings)
    /\ Len(e.embeddings) = Len(e.metadata)
    /\ \A i \in 1..Len(e.metadata) : e.metadata[i].chunkIndex = i - 1
    /\ \A i \in 1..Len(e.embeddings) : e.embeddings[i] = EmbeddingOf(e.chunks[i])

\* C5: the entry a successful createIndex built, every entry of the cache and
\* every entry store.json deserializes to has len(chunks) = len(embeddings) =
\* len(metadata) and metadata[i].chunkIndex = i for every index i.
C5_EntryLengthsAndIndex ==
    /\ Returned("create") /\ returned[1].ok => EntryOK(returned[1].entry[1])
    /\ \A id \in Ids :
          /\ vectorStoreCache[id] # None => EntryOK(vectorStoreCache[id][1])
          /\ Persisted(id) # None => EntryOK(Persisted(id)[1])

\* C5's case: createVectorStore has returned an entry of two chunks, which
\* the cache and store.json hold.
C5_Witness ==
    /\ Returned("create") /\ returned[1].ok
    /\ Len(returned[1].entry[1].chunks) = 2
    /\ vectorStoreCache[returned[1].id] = returned[1].entry
    /\ Persisted(returned[1].id) = returned[1].entry

\* C6: after deleteIndex(id) returned true and until a new createIndex(id) is
\* started, every load(id) returns NotFound and no listIndexes() has id.
C6_DeletedStaysGone ==
    /\ Returned("load") /\ deletedOk[returned[1].id] => returned[1].entry = None
    /\ Returned("list") => \A id \in Ids : deletedOk[id] => id \notin returned[1].listed

\* C7: after a successful createIndex(id) (and no later createIndex or
\* deleteIndex of id), with one request at a time, load(id) returns an entry
\* whose chunk texts are, in order, the chunks produced at indexing time, from
\* the cache and from store.json alike.
C7_RoundTrip ==
    Returned("load") /\ indexed[returned[1].id] # None =>
        /\ returned[1].entry # None
        /\ returned[1].entry[1].chunks = indexed[returned[1].id][1].chunks

\* C7's case: a load of an indexed id of two chunks was served from
\* store.json, the cache being empty.
C7_Witness ==
    /\ Returned("load")
    /\ returned[1].disk
    /\ indexed[returned[1].id] # None
    /\ Len(indexed[returned[1].id][1].chunks) = 2

\* C8: load(id) returns the cached entry when the cache holds one, and reads
\* store.json only when it holds none; when it read store.json it returns the
\* entry deserialized from what it read and the cache holds that entry
\* afterwards; otherwise it returns NotFound and leaves the cache as it is.
C8_LoadBehaviour ==
    [][LET ev == returned'[1]
           resumed == {t \in Tasks : task[t].pc = "resume" /\ task'[t].pc = "idle"}
       IN /\ \A t \in Tasks :
               /\ (task[t].pc = "idle" /\ task'[t].pc = "read") =>
                     vectorStoreCache[task'[t].id] = None
               /\ (task[t].pc = "read" /\ task'[t].pc = "resume") =>
                     task'[t].buf = storeFile[task[t].id]
          /\ (returned' # None /\ ev.op = "load") =>
               IF resumed # {}
               THEN \A u \in resumed :
                       /\ ev.entry = Deserialize(task[u].buf)
                       /\ ev.entry # None => vectorStoreCache'[ev.id] = ev.entry
                       /\ ev.entry = None => UNCHANGED vectorStoreCache
               ELSE IF vectorStoreCache[ev.id] # None
               THEN /\ ev.entry = vectorStoreCache[ev.id]
                    /\ ~ev.disk
                    /\ UNCHANGED <<vectorStoreCache, task>>
               ELSE /\ ev.entry = None
                    /\ Persisted(ev.id) = None
                    /\ UNCHANGED <<vectorStoreCache, task>>
      ]_vars

\* C8's case: a load found no cache entry, deserialized store.json, and the
\* cache holds what it returned.
C8_Witness ==
    /\ Returned("load")
    /\ returned[1].disk
    /\ returned[1].entry # None
    /\ vectorStoreCache[returned[1].id] = returned[1].entry

\* A durable record of id exists: store.json or metadata.json.
DurableRecord(id) == storeFile[id] # None \/ metaFile[id] # None

\* C9: deleteIndex(id) returns true exactly when durable storage held a
\* record of id (store.json or metadata.json) at the call, and afterwards the
\* cache entry, the directory, store.json and metadata.json of id are all
\* gone.
C9_DeleteReturnsEntryExisted ==
    [][(returned' # None /\ returned'[1].op = "delete") =>
          LET ev == returned'[1]
          IN /\ ev.ret = DurableRecord(ev.id)
             /\ vectorStoreCache'[ev.id] = None
             /\ ~dirs'[ev.id]
             /\ storeFile'[ev.id] = None
             /\ metaFile'[ev.id] = None
      ]_vars

\* C10: listIndexes() is exactly the set of ids whose store.json holds an
\* entry that load can deserialize.
C10_ListIsPersisted == ListVectorStores = {id \in Ids : Persisted(id) # None}

\* ------------------------------------------------------------ properties of indexing
\* The stores of the vector store: the cache and the files.
stores == <<vectorStoreCache, dirs, storeFile, metaFile>>

\* A text of no character but blanks.
Blank(str) == \A i \in 1..Len(str) : str[i] = " "

\* C11: createIndex fails with an empty-document error whenever chunking
\* yields zero chunks (an empty input text for one), and then, called on an id
\* with neither a cache entry nor a directory, leaves no entry for the id in
\* the cache or in store.json.
C11_ZeroChunksRejected ==
    /\ (Returned("createText")
          /\ SplitText(returned[1].text, CallChunkSize, CallChunkOverlap) = Some(<<>>)) =>
          /\ ~returned[1].ok
          /\ returned[1].cause = "empty"
          /\ returned[1].fresh =>
                vectorStoreCache[returned[1].id] = None /\ Persisted(returned[1].id) = None
    /\ (Returned("create") /\ returned[1].cause # "parse"
          /\ Len(SplitDocuments(returned[1].doc)) = 0) =>
          /\ ~returned[1].ok
          /\ returned[1].cause = "empty"
          /\ returned[1].fresh =>
                vectorStoreCache[returned[1].id] = None /\ Persisted(returned[1].id) = None

\* C12: an upload whose extracted text is empty or blank is rejected with an
\* empty-document error before any embedding call: the textContent route
\* answers 400 and createVectorStore(filePath, storeId) throws, no request
\* with such a text gets as far as chunking, and the cache, the directories,
\* store.json and metadata.json stay as they were.
C12_BlankUploadRejected ==
    [][LET ev == returned'[1]
       IN /\ (returned' # None /\ ev.op = "upload" /\ ev.cause # "parse" /\ Blank(ev.text)) =>
               /\ ev.status = 400
               /\ ev.cause \in {"required", "empty"}
               /\ ev.embeds = 0
               /\ UNCHANGED stores
          /\ (returned' # None /\ ev.op = "create" /\ ev.cause # "parse"
                /\ Blank(ExtractedText(ev.doc))) =>
               /\ ~ev.ok
               /\ ev.cause = "empty"
               /\ ev.embeds = 0
               /\ UNCHANGED stores
          /\ \A t \in Tasks :
               /\ task'[t].via = "upload" => ~Blank(task'[t].text)
               /\ (task'[t].op = "create" /\ Blank(ExtractedText(task'[t].doc))) =>
                     /\ task'[t].pc = "parse"
                     /\ UNCHANGED stores
      ]_vars

\* C12's case: the route has answered 400 to a PDF whose text is one blank.
C12_Witness ==
    /\ Returned("upload")
    /\ returned[1].text = <<" ">>
    /\ returned[1].status = 400
    /\ returned[1].cause = "empty"

\* ------------------------------------------------------------ retrieval
\* The results of the retrieval that just returned, and the entry it ranked.
Results == returned[1].results
Ranked == returned[1].entry[1]

\* C13: the results of a retrieval are in non-increasing order of score, and of
\* two results with equal scores the one with the smaller original chunk
\* index comes first.
C13_RankedByScoreThenIndex ==
    (Returned("retrieve") /\ returned[1].ok) =>
        \A i, j \in 1..Len(Results) :
            i < j =>
                /\ ScoreDiff(Results[i].score, Results[j].score) >= 0
                /\ ScoreDiff(Results[i].score, Results[j].score) = 0
                      => Results[i].metadata.chunkIndex < Results[j].metadata.chunkIndex

\* A retrieval returned three results, the first two with equal scores and
\* the third with a smaller one.
C13_Witness ==
    /\ Returned("retrieve") /\ returned[1].ok
    /\ Len(Results) = 3
    /\ ScoreDiff(Results[1].score, Results[2].score) = 0
    /\ ScoreDiff(Results[2].score, Results[3].score) > 0
    /\ Results[1].metadata.chunkIndex > 0

\* C14: a retrieval returns min(topK, n) results of the n stored chunks, and
\* they are the first of the ranking of all n.
C14_FirstTopKOfRanking ==
    (Returned("retrieve") /\ returned[1].ok) =>
        LET n == Len(Ranked.chunks)
            all == SortByScore(Scores(Ranked, EmbedQuery(returned[1].query)))
        IN /\ Len(Results) = Min(returned[1].topK, n)
           /\ \A i \in 1..Len(Results) :
                 /\ Results[i].metadata.chunkIndex = all[i].idx
                 /\ Results[i].pageContent = Ranked.chunks[all[i].idx + 1]
                 /\ Results[i].score = all[i].score

\* A retrieval of fewer results than the stored chunks returned some.
C14_Witness ==
    /\ Returned("retrieve") /\ returned[1].ok
    /\ returned[1].topK = 2
    /\ Len(Ranked.chunks) = 3
    /\ Len(Results) = 2
    /\ Results[1].metadata.chunkIndex = 2

\* C15: a retrieval for an id with neither a cached nor a persisted entry
\* throws the store-not-found error, and made no embedQuery call.
C15_AbsentStoreNotFound ==
    [][(/\ returned' # None
        /\ returned'[1].op = "retrieve"
        /\ vectorStoreCache[returned'[1].id] = None
        /\ Persisted(returned'[1].id) = None)
       => (/\ ~returned'[1].ok
           /\ returned'[1].cause = "notFound"
           /\ returned'[1].embeds = 0
           /\ UNCHANGED stores)]_vars

\* A retrieval from d1, deleted since it was stored, threw store-not-found.
C15_Witness ==
    /\ Returned("retrieve")
    /\ returned[1].id = "d1"
    /\ returned[1].cause = "notFound"
    /\ vectorStoreCache["d1"] = None /\ Persisted("d1") = None

\* ------------------------------------------------------------ provider failures
\* The operations that call the embedding provider, and the step on which one
\* of them fails with the provider's error.
EmbedOps == {"create", "createText", "upload", "retrieve"}
EmbedFailed == returned' # None /\ returned'[1].op \in EmbedOps /\ returned'[1].cause = "embed"

\* With one request at a time: the steps of a createVectorStore up to its
\* provider call leave the store alone, and those of a retrieval leave the
\* files alone.
BeforeProviderCall ==
    \A t \in Tasks :
        /\ (task'[t].op \in {"create", "createText"}
              /\ task'[t].pc \in {"parse", "split", "embed", "embedText"})
           => UNCHANGED stores
        /\ task'[t].op = "retrieve" => UNCHANGED <<dirs, storeFile, metaFile>>

\* C16 as stated: the provider is called once by createVectorStore and once by
\* a retrieval, and when the call fails the operation fails with its cause
\* and has changed neither the cache nor the files.
C16_ProviderFailureChangesNothing ==
    [][/\ BeforeProviderCall
       /\ (returned' # None /\ returned'[1].op \in EmbedOps /\ returned'[1].ok)
             => returned'[1].embeds = 1
       /\ EmbedFailed =>
             /\ returned'[1].embeds = 1
             /\ ~returned'[1].ok
             /\ UNCHANGED stores
             /\ ~returned'[1].loaded]_vars

\* C16, amended: as stated, but a retrieval whose provider call fails may have
\* put the persisted entry in the cache, when it loaded it from store.json
\* before the call.
C16_ProviderFailureKeepsEntries ==
    [][/\ BeforeProviderCall
       /\ (returned' # None /\ returned'[1].op \in EmbedOps /\ returned'[1].ok)
             => returned'[1].embeds = 1
       /\ EmbedFailed =>
             /\ returned'[1].embeds = 1
             /\ ~returned'[1].ok
             /\ UNCHANGED stores
             /\ returned'[1].loaded =>
                   /\ returned'[1].op = "retrieve"
                   /\ vectorStoreCache[returned'[1].id] = Persisted(returned'[1].id)
                   /\ vectorStoreCache[returned'[1].id] # None]_vars

\* The provider call of a retrieval that had loaded the entry from store.json
\* failed.
C16_Witness ==
    /\ Returned("retrieve")
    /\ returned[1].cause = "embed"
    /\ returned[1].loaded
    /\ vectorStoreCache[returned[1].id] # None

\* ------------------------------------------------------------ chatbotGraph
\* A citation: an object with a string text, a string source and a number
\* chunkIndex.
IsCitation(c) ==
    /\ c[1] = "object"
    /\ Get(c, "text")[1] = "string"
    /\ Get(c, "source")[1] = "string"
    /\ Get(c, "chunkIndex")[1] = "number"

\* A RAG response: an object with a string answer, an array of citations and
\* a confidence that is "high", "medium" or "low".
IsRAGResponse(r) ==
    /\ r[1] = "object"
    /\ Get(r, "answer")[1] = "string"
    /\ Get(r, "citations")[1] = "array"
    /\ \A i \in 1..Len(Get(r, "citations")[2]) : IsCitation(Get(r, "citations")[2][i])
    /\ Get(r, "confidence")[1] = "string"
    /\ Get(r, "confidence")[2] \in {"high", "medium", "low"}

\* C17: what chatbotGraph returns is a RAG response, whatever the language
\* model's message holds, and when it throws it returns nothing.
C17_ResponseFullyFormed ==
    Returned("chat") =>
        IF returned[1].ok
        THEN returned[1].response # None /\ IsRAGResponse(returned[1].response[1])
        ELSE returned[1].response = None

\* The questions whose retrieval did not deliver: no storeId was given, or
\* retrieveFromVectorStore threw.
NotRetrieved(r) == ~r.hasStore \/ r.retrieval \in {"notFound", "embed"}

\* C18: without a storeId, or when the retrieval throws (store not found or
\* embedding failure), chatbotGraph goes on with the in-memory documents as
\* the retrieved set: it invokes the language model on them and throws only
\* what that throws.
C18_FallsBackToStaticDocs ==
    /\ \A t \in Tasks :
          (task[t].op = "chat" /\ NotRetrieved(task[t])) =>
              task[t].pc = "llm" /\ task[t].docs = StaticDocs
    /\ (Returned("chat") /\ NotRetrieved(returned[1])) =>
          /\ returned[1].docs = StaticDocs
          /\ returned[1].llm = 1
          /\ returned[1].ok \/ returned[1].cause = "llm"

\* A question on a storeId whose retrieval failed at the embedding provider
\* was answered from the in-memory documents.
C18_Witness ==
    /\ Returned("chat")
    /\ returned[1].hasStore /\ returned[1].retrieval = "embed"
    /\ returned[1].ok
    /\ returned[1].docs = StaticDocs

\* C19: a question on a storeId with no persisted entry is not answered: it
\* fails with the store-not-found error.
C19_MissingStoreNotAnswered ==
    (/\ Returned("chat")
     /\ returned[1].hasStore
     /\ Persisted(returned[1].id) = None
     /\ vectorStoreCache[returned[1].id] = None)
    => (/\ ~returned[1].ok
        /\ returned[1].cause = "notFound"
        /\ returned[1].status # 200)

\* C20: with no retrieved document chatbotGraph returns the fixed message
\* with confidence low and no citation, and never invokes the language model.
C20_EmptyRetrievalUnanswerable ==
    /\ \A t \in Tasks : task[t].op = "chat" => task[t].docs # <<>>
    /\ (Returned("chat") /\ returned[1].docs = <<>>) =>
          /\ returned[1].ok
          /\ returned[1].llm = 0
          /\ returned[1].response =
                Some(Obj([answer |-> Str("Sorry, I couldn't find relevant information to answer your question."),
                          citations |-> Arr(<<>>), confidence |-> Str("low")]))

\* A question on a stored document without chunks got the fixed response.
C20_Witness ==
    /\ Returned("chat")
    /\ returned[1].retrieval = "ok"
    /\ returned[1].docs = <<>>
    /\ returned[1].llm = 0

\* C21: chatbotGraph invokes the language model at most once; when the call
\* throws, the request fails with the error of the call, returns no response
\* and has made that one call only.
C21_InvokedOnceFailureFatal ==
    /\ \A t \in Tasks : task[t].llm <= 1
    /\ Returned("chat") =>
          /\ returned[1].llm <= 1
          /\ returned[1].cause = "llm" =>
                /\ ~returned[1].ok
                /\ returned[1].response = None
                /\ returned[1].llm = 1
                /\ returned[1].status = 500
          /\ (returned[1].docs # <<>> /\ returned[1].ok) => returned[1].llm = 1

\* A question whose llm.invoke threw has failed.
C21_Witness ==
    /\ Returned("chat")
    /\ returned[1].cause = "llm"
    /\ returned[1].llm = 1
    /\ ~returned[1].ok

\* ------------------------------------------------------------ the parse step
\* The first brace-delimited object of the content of the message that was
\* answered, parsed.
FirstObject == JSONParseObject(MatchFirstObject(LMText(returned[1].output))[1])

\* C22: when the content holds a valid response object, with other text
\* before or after it, later text with braces included, the response is
\* built from that object: it has its answer and its confidence.
C22_BuiltFromFirstObject ==
    (/\ Returned("chat") /\ returned[1].ok /\ returned[1].output # "none"
     /\ MatchFirstObject(LMText(returned[1].output)) # None
     /\ FirstObject # None
     /\ IsRAGResponse(FirstObject[1]))
    => (/\ Get(returned[1].response[1], "answer") = Get(FirstObject[1], "answer")
        /\ Get(returned[1].response[1], "confidence") = Get(FirstObject[1], "confidence"))

\* The response is the fallback for the content of the message: the raw
\* content as answer, confidence medium and well-formed citations.
IsFallback(r, out) ==
    /\ IsRAGResponse(r)
    /\ Get(r, "answer") = Str(LMText(out))
    /\ Get(r, "confidence") = Str("medium")

\* C23: once llm.invoke has resolved, chatbotGraph returns a response and
\* does not throw, whatever the content; without a JSON object, with
\* malformed JSON or with an object without citations it returns the
\* fallback.
C23_ParseFailureAbsorbed ==
    (Returned("chat") /\ returned[1].llm = 1 /\ returned[1].cause # "llm") =>
        /\ returned[1].ok
        /\ returned[1].response # None
        /\ returned[1].response[1][1] = "object"
        /\ returned[1].output \in {"text", "broken", "noCitations"} =>
              IsFallback(returned[1].response[1], returned[1].output)

\* A message with malformed JSON was answered with the fallback.
C23_Witness ==
    /\ Returned("chat") /\ returned[1].ok
    /\ returned[1].output = "broken"
    /\ IsFallback(returned[1].response[1], "broken")

\* ------------------------------------------------------------ the fallback
\* The citations of the response that was returned.
Citations == Get(returned[1].response[1], "citations")[2]

\* C24: for a content without a JSON object the response has the raw content
\* as answer, confidence medium and min(3, number of retrieved documents)
\* citations, the i-th with the first 200 characters at most of the i-th
\* retrieved document.
C24_FallbackOfPlainText ==
    (/\ Returned("chat") /\ returned[1].ok /\ returned[1].output # "none"
     /\ RegexMatch(LMText(returned[1].output)) = None)
    => (/\ Get(returned[1].response[1], "answer") = Str(LMText(returned[1].output))
        /\ Get(returned[1].response[1], "confidence") = Str("medium")
        /\ Len(Citations) = Min(3, Len(returned[1].docs))
        /\ \A i \in 1..Len(Citations) :
              LET snippet == Get(Citations[i], "text")[2]
                  content == returned[1].docs[i].pageContent
              IN /\ Len(snippet) <= 200
                 /\ snippet = SubSeq(content, 1, Len(snippet))
                 /\ Len(snippet) < 200 => snippet = content)

\* A plain-text content was answered on four retrieved documents: three
\* citations, one of them cut to 200 characters.
C24_Witness ==
    /\ Returned("chat") /\ returned[1].ok
    /\ returned[1].output = "text"
    /\ Len(returned[1].docs) = 4
    /\ Len(Citations) = 3
    /\ \E i \in 1..3 : /\ Len(returned[1].docs[i].pageContent) > 200
                        /\ Len(Get(Citations[i], "text")[2]) = 200

\* C25: in the fallback the i-th citation has the source and the chunk index
\* of the i-th retrieved document, the chunk of index 0 included wherever it
\* is ranked.
C25_FallbackCitesRealIndex ==
    (/\ Returned("chat") /\ returned[1].ok
     /\ returned[1].retrieval = "ok"
     /\ returned[1].output \in {"text", "broken", "noCitations"})
    => \A i \in 1..Len(Citations) :
          /\ Get(Citations[i], "source") = Str(returned[1].docs[i].metadata.source)
          /\ Get(Citations[i], "chunkIndex") = Num(returned[1].docs[i].metadata.chunkIndex)

\* ------------------------------------------------------------ enrichment
\* The object parsed from the content that was answered and its citations,
\* when chatbotGraph used them.
Parsed == LMContent(returned[1].output).json[1]
Declared == Get(Parsed, "citations")[2]
UsedParsed ==
    /\ Returned("chat") /\ returned[1].ok /\ returned[1].output # "none"
    /\ LMContent(returned[1].output).json # None
    /\ Get(Parsed, "citations")[1] = "array"
    /\ \A i \in 1..Len(Declared) : Declared[i][1] = "object"

\* The retrieved documents of the source a citation declares.
SameSource(citation) ==
    {i \in 1..Len(returned[1].docs) :
        /\ Get(citation, "source")[1] = "string"
        /\ returned[1].docs[i].metadata.source = Get(citation, "source")[2]}

\* C26: when the content parses, a citation whose source is that of a
\* retrieved document has as text the first 200 characters of the content of
\* the first such document, and one whose source is that of none keeps the
\* text the model declared.
C26_CitationsEnriched ==
    UsedParsed =>
        /\ Len(Citations) = Len(Declared)
        /\ \A i \in 1..Len(Declared) :
              IF SameSource(Declared[i]) # {}
              THEN LET content == returned[1].docs[Lowest(SameSource(Declared[i]))].pageContent
                   IN Get(Citations[i], "text") = Str(SubSeq(content, 1, Min(200, Len(content))))
              ELSE Get(Citations[i], "text") = Get(Declared[i], "text")

\* A citation of the uploaded file got the first 200 characters of its chunk
\* of more than 200.
C26_Witness ==
    /\ UsedParsed
    /\ returned[1].output = "citesUpload"
    /\ SameSource(Declared[1]) # {}
    /\ Len(returned[1].docs[Lowest(SameSource(Declared[1]))].pageContent) > 200
    /\ Len(Get(Citations[1], "text")[2]) = 200

\* C27: a response returned after llm.invoke resolved, built from the parsed
\* object or the fallback, has at least one citation.
C27_SomeCitation ==
    (Returned("chat") /\ returned[1].ok /\ returned[1].llm = 1) =>
        /\ Get(returned[1].response[1], "citations")[1] = "array"
        /\ Len(Citations) >= 1

Topics == returned[1].response[1][2]
\* C28: getSuggestedTopics returns at most five topics, all of them strings,
\* whatever the language model answered.
C28_AtMostFiveStrings ==
    (Returned("topics") /\ returned[1].hasStore /\ returned[1].ok) =>
        /\ Len(Topics) <= 5
        /\ \A i \in 1..Len(Topics) : Topics[i][1] = "string"

NoArrayParsed(out) ==
    \/ out = "threw"
    \/ ArrayMatch(TopicText(out)) = None
    \/ JSONParseArray(ArrayMatch(TopicText(out))[1]) = None
\* C29: a topics request with a storeId never fails: when the retrieval
\* threw, the language-model call threw, its content has no array on one
\* line or the match does not parse, the default list is returned.
C29_FailuresGiveDefaultTopics ==
    (Returned("topics") /\ returned[1].hasStore) =>
        /\ returned[1].ok /\ returned[1].status = 200
        /\ (returned[1].retrieval # "ok" \/ NoArrayParsed(returned[1].output)) =>
              returned[1].response = Some(Arr(DefaultTopics))
C29_Witness ==
    /\ Returned("topics") /\ returned[1].hasStore
    /\ returned[1].retrieval = "notFound"
    /\ returned[1].response = Some(Arr(DefaultTopics))

\* C30: when a createIndex of an id completes right after another createIndex
\* of the same id did, the two having overlapped, the cache entry, store.json
\* and metadata.json of the id are those of the call that completed last.
C30_LastCompletionOwnsAll ==
    [][(/\ Returned("create") /\ returned[1].ok
        /\ returned' # None /\ returned'[1].op = "create" /\ returned'[1].ok
        /\ returned'[1].id = returned[1].id)
       => LET last == returned'[1]
          IN /\ vectorStoreCache'[last.id] = last.entry
             /\ Deserialize(storeFile'[last.id]) # None
             /\ Deserialize(storeFile'[last.id])[1].chunks = last.entry[1].chunks
             /\ metaFile'[last.id] = Some(JSONStringifyMeta(CreateMeta(last.doc)))]_vars

\* C31: an id that has a cache entry keeps one in the next state, whatever
\* the request and whatever its id, unless the step is deleteVectorStore of
\* that id (or the process restarted with an empty cache).
C31_CacheKeepsEntries ==
    [][\A id \in Ids :
          (vectorStoreCache[id] # None /\ vectorStoreCache'[id] = None) =>
              (DeleteVectorStore(id, 1) \/ Restart)]_vars
\* C31's case: the entry of d1 is cached after a deleteVectorStore of d2 that
\* removed a directory.
C31_Witness ==
    /\ Returned("delete") /\ returned[1].id = "d2" /\ returned[1].ret
    /\ vectorStoreCache["d1"] # None

\* The fields of the record in metadata.json of id.
MetaRecord(id) == SubSeq(metaFile[id][1], 2, Len(metaFile[id][1]) - 1)
MetaNames(id) == {MetaRecord(id)[i][1] : i \in 1..Len(MetaRecord(id))}
\* C32: after a PDF upload answered 200, metadata.json of the new id has
\* fileName, createdAt, pageCount, textLength and a chunkCount that is the
\* number of chunks in store.json.
C32_UploadMetadataComplete ==
    (Returned("uploadPdf") /\ returned[1].status = 200) =>
        LET id == returned[1].id
        IN /\ metaFile[id] # None /\ Persisted(id) # None
           /\ {"fileName", "createdAt", "pageCount", "textLength", "chunkCount"}
                 \subseteq MetaNames(id)
           /\ \A i \in 1..Len(MetaRecord(id)) :
                 MetaRecord(id)[i][1] = "chunkCount" =>
                     MetaRecord(id)[i][2] = Len(Persisted(id)[1].chunks)

\* C33: with chunkSize > chunkOverlap >= 0, a chunk that is followed by
\* another has length chunkSize, and the chunk after it starts chunkSize -
\* chunkOverlap after its start; only the last chunk is shorter.
C33_FullWindowsEvenlySpaced ==
    (chunks # <<>> /\ splitPc = "loop" /\ startIndex < Len(text)) =>
        LET last == chunks[Len(chunks)]
        IN /\ Len(last) = chunkSize
           /\ startIndex = (endIndex - Len(last)) + chunkSize - chunkOverlap

\* C34: when no request on an id is in flight and the cache has an entry for
\* it, store.json of the id parses to the same chunks, embeddings and
\* metadata.
C34_CacheCoherent ==
    \A id \in Ids :
        ((\A t \in InFlight : task[t].id # id) /\ vectorStoreCache[id] # None) =>
            Persisted(id) = vectorStoreCache[id]

\* C35: every result of a retrieval that returned holds the chunk and the
\* metadata found at one index of the entry the retrieval's loadVectorStore
\* returned, whatever became of the cache entry while embedQuery was awaited.
C35_ResultsOfOneVersion ==
    (Returned("retrieve") /\ returned[1].ok) =>
        \A j \in 1..Len(Results) :
            LET i == Results[j].metadata.chunkIndex + 1
            IN /\ i \in 1..Len(Ranked.chunks)
               /\ Results[j].pageContent = Ranked.chunks[i]
               /\ Results[j].metadata = Ranked.metadata[i]
\* C35's case: a retrieval returned results of the entry it had loaded while
\* the cache holds an entry of another document by then.
C35_Witness ==
    /\ Returned("retrieve") /\ returned[1].ok
    /\ Len(Results) > 0
    /\ vectorStoreCache[returned[1].id] # None
    /\ vectorStoreCache[returned[1].id][1].chunks # Ranked.chunks

\* A step of loadVectorStore, retrieveFromVectorStore or listVectorStores.
ReadStep ==
    \/ \E t \in Tasks :
          \/ LoadRead(t) \/ LoadResume(t)
          \/ RetrieveRead(t) \/ RetrieveLoaded(t) \/ RetrieveEmbedded(t)
          \/ \E id \in Ids : CallLoad(t, id, NumTasks)
          \/ \E id \in Ids, q \in Queries, k \in 0..MaxTopK :
                CallRetrieve(t, id, q, k, "direct", NumTasks)
    \/ CallList(NumTasks)
\* The ids whose cache entry, directory or files the step changes.
Touched ==
    {id \in Ids : \/ vectorStoreCache'[id] # vectorStoreCache[id]
                  \/ dirs'[id] # dirs[id]
                  \/ storeFile'[id] # storeFile[id]
                  \/ metaFile'[id] # metaFile[id]}
\* C36: a step of a load, a retrieval or a list changes no directory and no
\* file and leaves every entry the cache holds as it is; a step of any
\* request changes the cache entry and the files of one id at most.
C36_Frame ==
    [][/\ ReadStep =>
             /\ UNCHANGED <<dirs, storeFile, metaFile>>
             /\ \A id \in Ids :
                   vectorStoreCache[id] # None => vectorStoreCache'[id] = vectorStoreCache[id]
       /\ ~Restart => Cardinality(Touched) <= 1]_vars

\* The retrieved documents a citation identifies by source and chunkIndex.
Identified(citation) ==
    {j \in SameSource(citation) :
        /\ "chunkIndex" \in DOMAIN returned[1].docs[j].metadata
        /\ Get(citation, "chunkIndex")[1] = "number"
        /\ Get(citation, "chunkIndex")[2] = returned[1].docs[j].metadata.chunkIndex}
\* C37: when the content parses, a citation that names the source and the
\* chunkIndex of a retrieved document has as text the first 200 characters of
\* the content of that document, not of another document of the source.
C37_CitationTextOfCitedChunk ==
    UsedParsed =>
        \A i \in 1..Len(Declared) : \A j \in Identified(Declared[i]) :
            LET content == returned[1].docs[j].pageContent
            IN Get(Citations[i], "text") = Str(SubSeq(content, 1, Min(200, Len(content))))

\* C38: when the upload and the topics request that follows it succeeded, the
\* topics onUploadSuccess is called with are those the topics request
\* returned.
C38_PassesReturnedTopics ==
    (uploadSuccess # None /\ uploadSuccess[1].topics # None) =>
        uploadSuccess[1].suggestedTopics = uploadSuccess[1].topics[1]

====
